---- MODULE Spec2Model ----
(***************************************************************************)
(* TanaChat: the Tana export parsing and transformation engine.            *)
(*                                                                         *)
(*   lib/tana_importer.py     extract_nodes_by_supertag  (SpecResolver)    *)
(*   lib/tana_parser.py       TanaParser index and walks (SpecIndex,       *)
(*   bin/tana_outline.py      TanaOutlineGenerator        SpecWalker)      *)
(*   lib/tana_json_parser.py  append_to_node              (SpecEditor)     *)
(*   lib/tana_json_parser.py  get_fresh_data              (SpecCache)      *)
(*   bin/tana_outline.py      print_statistics            (SpecStats)      *)
(*   lib/tana_parser.py       get_statistics, get_path    (SpecQueries)    *)
(*   lib/keytags_manager.py   KeyTagsManager              (SpecKeytags)    *)
(*                                                                         *)
(* Python strings whose characters matter (names, node content) are        *)
(* sequences of one-character strings; ids are TLA+ strings.  A Python     *)
(* exception that leaves a call is the outcome "raised".                   *)
(***************************************************************************)
EXTENDS Integers, Sequences, FiniteSets, TLC

VARIABLES
    \* ---- KeyTagsManager (lib/keytags_manager.py)
    ktFile,              \* metadata/keytags.json
    ktExport,            \* the supertag table of export/SuperTags.md, in order
    ktCalls,             \* operations made so far
    ktLast,              \* the latest operation: its outcome and the file before it
    \* ---- extract_nodes_by_supertag (lib/tana_importer.py)
    rsDocs,              \* data['docs']: the flat document list
    rsKeytags,           \* keytags_data['supertags']['user_defined'].values()
    rsPc,                \* "start" | "mapped" | "done"
    meta_node_to_supertag,
    nodes_by_supertag,
    \* ---- TanaParser / TanaOutlineGenerator (lib/tana_parser.py, bin/tana_outline.py)
    json_data,           \* the constructor's argument
    ixClass,             \* "TanaParser" | "TanaOutlineGenerator"
    ixStatus,            \* "new" | "ok" | "raised" (the constructor raised)
    self_docs,           \* self.docs, in dict order
    children_cache,      \* TanaParser.children_cache
    gcCalls,             \* get_children(x) calls made, per x
    firstReturn,         \* what the first get_children(x) returned
    lastReturn,          \* what the latest get_children(x) returned
    \* ---- recursive walks over the index (count_descendants, get_tree_depth,
    \*      _print_children, print_home_children_list/_print_children_simple)
    wkMode,              \* the entry point called
    wkPc,                \* "ready" | "running" | "done" | "raised" (RecursionError)
    wkStart,             \* the node the walk starts from
    wkMaxDepth,          \* self.max_depth / the max_depth argument
    wkStack,             \* the active invocations, outermost first
    wkCalls,             \* invocations of the recursive function so far
    wkPrinted,           \* the node lines printed, in order
    wkResult,            \* the value the outermost call returned
    \* ---- TanaJSONParser.append_to_node (lib/tana_json_parser.py)
    clock,               \* datetime.now(), in whole seconds
    fsSource,            \* the source JSON file
    fsNodeBackups,       \* files/backups/{node_id}_{timestamp}.md, by <<node_id, timestamp>>
    fsFileBackups,       \* {source}.backup_{unix_ts}.json, by unix_ts
    ed,                  \* per caller: the append_to_node call in progress
    \* ---- TanaImporter.import_file (lib/tana_importer.py)
    imData,              \* the Tana JSON file given to import_file
    imKeytags,           \* metadata/keytags.json: the user_defined tags, in order
    exportDir,           \* files/export: whether it exists, and its files
    imRun,               \* import_file calls made so far
    imResult,            \* what the last import_file call returned, or that it raised
    \* ---- validate_tana_file (api/src/services/tana_validator.py)
    vdContent,           \* the content string, as the document it holds
    vdResult,            \* the validation result, once returned
    \* ---- TanaJSONParser.get_fresh_data (lib/tana_json_parser.py)
    caNow,               \* datetime.now(), in whole seconds
    caAdvances,          \* how many times the time has moved
    caFile,              \* the export file parse_tana_json finds
    cached_data,         \* self._cached_data
    cache_timestamp,     \* self._cache_timestamp
    caLast,              \* the latest get_fresh_data call: arguments and outcome
    \* ---- TanaOutlineGenerator.print_statistics (bin/tana_outline.py)
    stDocs,              \* the documents of the export: id and parentId, in order
    stRoots,             \* self.root_nodes
    processed_nodes,     \* self.processed_nodes
    stCalls,             \* print_statistics calls made so far
    stReported,          \* the sample max actual depth the latest call printed
    \* ---- TanaOutlineGenerator.identify_root_nodes (bin/tana_outline.py)
    roData,              \* the export: docs, and the workspace entry looked up
    roPc,                \* position in identify_root_nodes
    root_candidates,     \* the set of candidate ids
    roInserted,          \* the candidates in the order they were first added
    root_nodes           \* self.root_nodes, the list returned

rsVars == <<rsDocs, rsKeytags, rsPc, meta_node_to_supertag, nodes_by_supertag>>
ixVars == <<json_data, ixClass, ixStatus, self_docs, children_cache,
            gcCalls, firstReturn, lastReturn>>

wkVars == <<wkMode, wkPc, wkStart, wkMaxDepth, wkStack, wkCalls, wkPrinted, wkResult>>

edVars == <<clock, fsSource, fsNodeBackups, fsFileBackups, ed>>

imVars == <<imData, imKeytags, exportDir, imRun, imResult>>

vdVars == <<vdContent, vdResult>>

roVars == <<roData, roPc, root_candidates, roInserted, root_nodes>>

caVars == <<caNow, caAdvances, caFile, cached_data, cache_timestamp, caLast>>

stVars == <<stDocs, stRoots, processed_nodes, stCalls, stReported>>

ktVars == <<ktFile, ktExport, ktCalls, ktLast>>

vars == <<rsVars, ixVars, wkVars, edVars, imVars, vdVars, roVars, caVars, stVars,
          ktVars>>

\* what each component leaves alone
notRs == <<ktVars, stVars, caVars, roVars, vdVars, ixVars, wkVars, edVars, imVars>>
notIx == <<ktVars, stVars, caVars, roVars, vdVars, rsVars, wkVars, edVars, imVars>>
notWk == <<ktVars, stVars, caVars, roVars, vdVars, rsVars, edVars, imVars>>
notEd == <<ktVars, stVars, caVars, roVars, vdVars, rsVars, ixVars, wkVars, imVars>>
notIm == <<ktVars, stVars, caVars, roVars, rsVars, ixVars, wkVars, edVars, vdVars>>
notRo == <<ktVars, stVars, caVars, rsVars, ixVars, wkVars, edVars, imVars, vdVars>>
notVd == <<ktVars, stVars, caVars, roVars, rsVars, ixVars, wkVars, edVars, imVars>>
notCa == <<ktVars, stVars, rsVars, ixVars, wkVars, edVars, imVars, vdVars, roVars>>
notSt == <<ktVars, caVars, rsVars, ixVars, wkVars, edVars, imVars, vdVars, roVars>>
notKt == <<stVars, caVars, rsVars, ixVars, wkVars, edVars, imVars, vdVars, roVars>>

\* Python None / an absent key, for id-valued fields.
NoValue == "None"

(***************************************************************************)
(* Strings as character sequences                                          *)
(***************************************************************************)
UpperAlphabet ==
    <<"A","B","C","D","E","F","G","H","I","J","K","L","M",
      "N","O","P","Q","R","S","T","U","V","W","X","Y","Z">>
LowerAlphabet ==
    <<"a","b","c","d","e","f","g","h","i","j","k","l","m",
      "n","o","p","q","r","s","t","u","v","w","x","y","z">>

\* str.lower() on one character
LowerChar(c) ==
    IF \E i \in 1..Len(UpperAlphabet) : UpperAlphabet[i] = c
    THEN LowerAlphabet[CHOOSE i \in 1..Len(UpperAlphabet) : UpperAlphabet[i] = c]
    ELSE c

\* str.lower()
Lower(s) == [i \in 1..Len(s) |-> LowerChar(s[i])]

\* str.startswith(prefix)
StartsWith(s, prefix) ==
    /\ Len(s) >= Len(prefix)
    /\ SubSeq(s, 1, Len(prefix)) = prefix

\* dict assignment d[k] = v on a dict kept as a function
Put(d, k, v) == [x \in (DOMAIN d) \cup {k} |-> IF x = k THEN v ELSE d[x]]

EmptyDict == [x \in {} |-> x]

(***************************************************************************)
(* extract_nodes_by_supertag                                               *)
(***************************************************************************)
\* the literal 'Field defaults for'
FieldDefaultsPrefix ==
    <<"F","i","e","l","d"," ","d","e","f","a","u","l","t","s"," ","f","o","r">>

\* a plausible slip: comparing the whole name instead of its prefix
IsFieldDefaultsExact(node_name) == node_name = FieldDefaultsPrefix

\* node_name.startswith('Field defaults for')
IsFieldDefaults(node_name) == StartsWith(node_name, FieldDefaultsPrefix)

Untitled == <<"U","n","t","i","t","l","e","d">>

\* target_supertags: an insertion-ordered dict name -> node_id, kept as a
\* sequence of [name, node_id]; a tag with an empty name is skipped and a
\* repeated name keeps its first position with the last node_id.
RECURSIVE TargetSupertagsFrom(_, _, _)
TargetSupertagsFrom(keytags, i, acc) ==
    IF i > Len(keytags) THEN acc
    ELSE LET tag_data == keytags[i]
             tag_name == tag_data.name
             pos == {j \in 1..Len(acc) : acc[j].name = tag_name}
             acc2 == IF tag_name = <<>> THEN acc
                     ELSE IF pos # {}
                          THEN [j \in 1..Len(acc) |->
                                   IF j \in pos
                                   THEN [name |-> tag_name, node_id |-> tag_data.node_id]
                                   ELSE acc[j]]
                          ELSE Append(acc, [name |-> tag_name, node_id |-> tag_data.node_id])
         IN TargetSupertagsFrom(keytags, i + 1, acc2)

TargetSupertags(keytags) == TargetSupertagsFrom(keytags, 1, <<>>)

\* target_supertag_ids = set(target_supertags.values())
TargetSupertagIds(targets) == {targets[i].node_id : i \in 1..Len(targets)}

\* doc_lookup = {doc.get('id'): doc for doc in docs}: the last document of an id
HasDoc(docs, id) == \E i \in 1..Len(docs) : docs[i].id = id
DocLookup(docs, id) ==
    docs[CHOOSE i \in 1..Len(docs) :
            /\ docs[i].id = id
            /\ \A j \in (i + 1)..Len(docs) : docs[j].id # id]

\* for supertag_name, supertag_id in target_supertags.items():
\*     if grandchild_id == supertag_id: ... break
FirstTargetWithId(targets, id) ==
    targets[CHOOSE i \in 1..Len(targets) :
               /\ targets[i].node_id = id
               /\ \A j \in 1..(i - 1) : targets[j].node_id # id].name

RECURSIVE GrandchildLoop(_, _, _, _, _)
GrandchildLoop(meta, doc_id, child_children, k, targets) ==
    IF k > Len(child_children) THEN meta
    ELSE LET grandchild_id == child_children[k]
             meta2 == IF grandchild_id \in TargetSupertagIds(targets)
                      THEN Put(meta, doc_id, FirstTargetWithId(targets, grandchild_id))
                      ELSE meta
         IN GrandchildLoop(meta2, doc_id, child_children, k + 1, targets)

RECURSIVE ChildLoop(_, _, _, _, _, _)
ChildLoop(meta, docs, doc_id, children, j, targets) ==
    IF j > Len(children) THEN meta
    ELSE LET child_id == children[j]
             skip == \/ ~HasDoc(docs, child_id)
                     \/ DocLookup(docs, child_id).children = <<>>
             meta2 == IF skip THEN meta
                      ELSE GrandchildLoop(meta, doc_id,
                               DocLookup(docs, child_id).children, 1, targets)
         IN ChildLoop(meta2, docs, doc_id, children, j + 1, targets)

RECURSIVE DocLoop(_, _, _, _)
DocLoop(meta, docs, i, targets) ==
    IF i > Len(docs) THEN meta
    ELSE LET doc == docs[i]
             meta2 == IF doc.children = <<>> THEN meta
                      ELSE ChildLoop(meta, docs, doc.id, doc.children, 1, targets)
         IN DocLoop(meta2, docs, i + 1, targets)

\* the loop that fills meta_node_to_supertag
BuildMetaNodeToSupertag(docs, targets) == DocLoop(EmptyDict, docs, 1, targets)

\* nodes_by_supertag[tag].append({...}), creating the list on first use
AppendNode(result, tag, item) ==
    LET entry == [name |-> IF item.name = <<>> THEN Untitled ELSE item.name,
                  node_id |-> item.id]
    IN Put(result, tag,
           IF tag \in DOMAIN result THEN Append(result[tag], entry) ELSE <<entry>>)

\* the _metaNodeId branch of traverse_nodes
IndirectStep(result, item, meta) ==
    IF /\ item.metaNodeId # NoValue
       /\ item.metaNodeId # ""
       /\ item.metaNodeId \in DOMAIN meta
       /\ ~IsFieldDefaults(item.name)
    THEN AppendNode(result, meta[item.metaNodeId], item)
    ELSE result

\* supertag_id == target_id or supertag_name.lower() == target_name.lower()
DirectMatch(supertag, target) ==
    \/ supertag.id = target.node_id
    \/ Lower(supertag.name) = Lower(target.name)

RECURSIVE DirectTargetLoop(_, _, _, _, _)
DirectTargetLoop(result, item, supertag, targets, t) ==
    IF t > Len(targets) THEN result
    ELSE LET result2 == IF /\ DirectMatch(supertag, targets[t])
                           /\ ~IsFieldDefaults(item.name)
                        THEN AppendNode(result, targets[t].name, item)
                        ELSE result
         IN DirectTargetLoop(result2, item, supertag, targets, t + 1)

RECURSIVE DirectStep(_, _, _, _)
DirectStep(result, item, s, targets) ==
    IF s > Len(item.supertags) THEN result
    ELSE DirectStep(DirectTargetLoop(result, item, item.supertags[s], targets, 1),
                    item, s + 1, targets)

\* traverse_nodes(docs): in the flat export every entry of a document's
\* children list is an id string, which the isinstance(item, dict) test
\* skips, so the recursive call adds nothing.
RECURSIVE TraverseNodes(_, _, _, _, _)
TraverseNodes(result, items, i, meta, targets) ==
    IF i > Len(items) THEN result
    ELSE LET item == items[i]
             result2 == IF item.docType = "tagDef" THEN result
                        ELSE DirectStep(IndirectStep(result, item, meta),
                                        item, 1, targets)
         IN TraverseNodes(result2, items, i + 1, meta, targets)

\* ---- inputs of the resolver
PjName == <<"P","j">>
TkName == <<"T","k">>
NoteName == <<"N","o","t","e">>
TagPj == [name |-> PjName, node_id |-> "t1"]
TagTk == [name |-> TkName, node_id |-> "t2"]
TagNameless == [name |-> <<>>, node_id |-> "t3"]

KeytagChoices ==
    { <<TagPj>>, <<TagPj, TagTk>>, <<TagTk, TagPj>>, <<TagPj, TagNameless>> }

NameChoices ==
    { <<>>, NoteName,
      FieldDefaultsPrefix,
      FieldDefaultsPrefix \o <<" ","X">>,
      Lower(FieldDefaultsPrefix) }

SupertagChoices ==
    { <<>>,
      <<[id |-> "t1", name |-> <<"P","J">>]>>,
      <<[id |-> "zz", name |-> <<"p","j">>]>>,
      <<[id |-> "t1", name |-> <<>>], [id |-> "zz", name |-> PjName]>>,
      <<[id |-> "t2", name |-> TkName]>> }

\* a document: name is props.name, top_name the top-level field name,
\* docType props._docType, metaNodeId props._metaNodeId
StructDoc(id, children) ==
    [id |-> id, children |-> children, name |-> <<>>, docType |-> NoValue,
     metaNodeId |-> NoValue, supertags |-> <<>>, top_name |-> <<>>]

ResolverDocs ==
    { << StructDoc("u1", c1), StructDoc("u2", c2), StructDoc("m1", cm),
         [id |-> "n1", children |-> <<>>, name |-> nm, docType |-> dt,
          metaNodeId |-> mn, supertags |-> st, top_name |-> <<>>],
         [id |-> "n2", children |-> <<>>, name |-> NoteName, docType |-> NoValue,
          metaNodeId |-> mn2, supertags |-> <<>>, top_name |-> <<>>] >> :
        c1 \in {<<>>, <<"t1">>, <<"t2">>, <<"t1", "t2">>},
        c2 \in {<<>>, <<"t2">>},
        cm \in {<<>>, <<"u1">>, <<"u1", "u2">>, <<"u2", "u1">>},
        nm \in NameChoices,
        dt \in {NoValue, "tagDef"},
        mn \in {NoValue, "m1"},
        st \in SupertagChoices,
        mn2 \in {NoValue, "m1"} }

ResolverIdle ==
    /\ rsDocs = <<>>
    /\ rsKeytags = <<>>
    /\ rsPc = "off"
    /\ meta_node_to_supertag = EmptyDict
    /\ nodes_by_supertag = EmptyDict

\* extract_nodes_by_supertag, up to the definition of traverse_nodes
BuildMetaMapping ==
    /\ rsPc = "start"
    /\ meta_node_to_supertag' =
           BuildMetaNodeToSupertag(rsDocs, TargetSupertags(rsKeytags))
    /\ rsPc' = "mapped"
    /\ UNCHANGED <<rsDocs, rsKeytags, nodes_by_supertag>>
    /\ UNCHANGED notRs

\* traverse_nodes(docs); return nodes_by_supertag
TraverseDocs ==
    /\ rsPc = "mapped"
    /\ nodes_by_supertag' =
           TraverseNodes(EmptyDict, rsDocs, 1, meta_node_to_supertag,
                         TargetSupertags(rsKeytags))
    /\ rsPc' = "done"
    /\ UNCHANGED <<rsDocs, rsKeytags, meta_node_to_supertag>>
    /\ UNCHANGED notRs

(***************************************************************************)
(* Graph index: TanaParser.__init__ / TanaOutlineGenerator.__init__ and    *)
(* get_children                                                            *)
(***************************************************************************)
\* props without a 'created' key
Absent == -1

\* largest 'created' timestamp of the inputs
MaxCreated == 1

\* get_children(x) calls made per x
MaxCalls == 2

\* self.docs = {doc['id']: doc for doc in ...}: a repeated id keeps the
\* position of its first document and the value of its last
RECURSIVE DocsDict(_, _, _)
DocsDict(entries, i, acc) ==
    IF i > Len(entries) THEN acc
    ELSE LET doc == entries[i]
             pos == {j \in 1..Len(acc) : acc[j].id = doc.id}
         IN DocsDict(entries, i + 1,
                IF pos # {}
                THEN [j \in 1..Len(acc) |-> IF j \in pos THEN doc ELSE acc[j]]
                ELSE Append(acc, doc))

\* whether self.data.get('docs', []) or doc['id'] raises:
\*   a bare list or a scalar has no .get           (AttributeError)
\*   "docs": null is not iterable                  (TypeError)
\*   a docs entry without 'id'                     (KeyError)
\*   a docs entry that is not an object            (TypeError)
ConstructorRaises(data) ==
    \/ data.shape \in {"list", "scalar", "docs_null"}
    \/ /\ data.shape = "docs"
       /\ \E i \in 1..Len(data.docs) : data.docs[i].kind # "doc"

\* the entries the comprehension iterates: data.get('docs', [])
DocsEntries(data) == IF data.shape = "docs" THEN data.docs ELSE <<>>

\* sort_key: created if created else 0, with a default of 0
SortKey(doc) == IF doc.created = Absent \/ doc.created = 0 THEN 0 ELSE doc.created

\* list.sort(key=sort_key) is stable: an element goes after every element
\* whose key is not larger
RECURSIVE SortedInsert(_, _)
SortedInsert(sorted, doc) ==
    IF sorted = <<>> THEN <<doc>>
    ELSE IF SortKey(Head(sorted)) <= SortKey(doc)
         THEN <<Head(sorted)>> \o SortedInsert(Tail(sorted), doc)
         ELSE <<doc>> \o sorted

RECURSIVE SortByCreated(_, _, _)
SortByCreated(list, i, acc) ==
    IF i > Len(list) THEN acc
    ELSE SortByCreated(list, i + 1, SortedInsert(acc, list[i]))

\* the documents with doc.get('parentId') == node_id, in dict order
RECURSIVE SelectChildren(_, _, _, _)
SelectChildren(index, node_id, i, acc) ==
    IF i > Len(index) THEN acc
    ELSE SelectChildren(index, node_id, i + 1,
             IF index[i].parentId = node_id THEN Append(acc, index[i]) ELSE acc)

IdsOf(list) == [i \in 1..Len(list) |-> list[i].id]

\* a plausible slip: forgetting children.sort(key=sort_key)
ComputeChildrenUnsorted(index, node_id) ==
    IdsOf(SelectChildren(index, node_id, 1, <<>>))

\* get_children without the cache: scan, then sort by creation time
ComputeChildren(index, node_id) ==
    IdsOf(SortByCreated(SelectChildren(index, node_id, 1, <<>>), 1, <<>>))

\* ---- inputs of the index
GraphIds == {"d1", "d2", "d3"}
QueryIds == {"d1", "d2"}
CreatedChoices == {Absent} \cup (0..MaxCreated)

Doc(id, parentId, created) ==
    [kind |-> "doc", id |-> id, parentId |-> parentId, created |-> created]

\* an entry of the docs list that is an object without 'id', and one that is
\* not an object at all
EntryNoId == [kind |-> "no_id", id |-> NoValue, parentId |-> NoValue, created |-> Absent]
EntryString == [kind |-> "string", id |-> NoValue, parentId |-> NoValue, created |-> Absent]

\* three documents; the second and third may repeat the id of the first
WellFormedDocs ==
    { << Doc("d1", p1, c1), Doc(i2, p2, c2), Doc(i3, p3, c3) >> :
        p1 \in {NoValue, "d2"}, c1 \in CreatedChoices,
        i2 \in {"d2", "d1"}, p2 \in {NoValue, "d1", "d2"}, c2 \in CreatedChoices,
        i3 \in {"d3", "d1"}, p3 \in {NoValue, "d1", "d2"}, c3 \in CreatedChoices }

SomeDocs == << Doc("d1", NoValue, Absent), Doc("d2", "d1", 1) >>

MalformedData ==
    { [shape |-> "list", docs |-> SomeDocs],           \* a bare list of documents
      [shape |-> "list", docs |-> <<>>],
      [shape |-> "scalar", docs |-> <<>>],             \* null, a number, a string
      [shape |-> "docs_null", docs |-> <<>>],          \* {"docs": null}
      [shape |-> "no_docs", docs |-> SomeDocs],        \* {"nodes": [...]}: no 'docs' key
      [shape |-> "docs", docs |-> <<Doc("d1", NoValue, Absent), EntryNoId>>],
      [shape |-> "docs", docs |-> <<EntryString>>],
      [shape |-> "docs", docs |-> <<>>] }

IndexData ==
    {[shape |-> "docs", docs |-> ds] : ds \in WellFormedDocs} \cup MalformedData

IndexClasses == {"TanaParser", "TanaOutlineGenerator"}

IndexIdle ==
    /\ json_data = [shape |-> "docs", docs |-> <<>>]
    /\ ixClass = "TanaParser"
    /\ ixStatus = "off"
    /\ self_docs = <<>>
    /\ children_cache = EmptyDict
    /\ gcCalls = [x \in QueryIds |-> 0]
    /\ firstReturn = EmptyDict
    /\ lastReturn = EmptyDict

\* TanaParser(json_data) / TanaOutlineGenerator(json_data)
Construct ==
    /\ ixStatus = "new"
    /\ IF ConstructorRaises(json_data)
       THEN /\ ixStatus' = "raised"
            /\ self_docs' = self_docs
       ELSE /\ ixStatus' = "ok"
            /\ self_docs' = DocsDict(DocsEntries(json_data), 1, <<>>)
    /\ UNCHANGED <<json_data, ixClass, children_cache, gcCalls, firstReturn, lastReturn>>
    /\ UNCHANGED notIx

\* get_children(node_id): TanaParser answers from children_cache when it can
\* and stores what it computed; TanaOutlineGenerator computes every time
ChildrenOf(node_id) ==
    IF ixClass = "TanaParser" /\ node_id \in DOMAIN children_cache
    THEN children_cache[node_id]
    ELSE ComputeChildren(self_docs, node_id)

GetChildren(node_id) ==
    /\ ixStatus = "ok"
    /\ gcCalls[node_id] < MaxCalls
    /\ LET children == ChildrenOf(node_id)
       IN /\ children_cache' = IF ixClass = "TanaParser"
                               THEN Put(children_cache, node_id, children)
                               ELSE children_cache
          /\ firstReturn' = IF node_id \in DOMAIN firstReturn THEN firstReturn
                            ELSE Put(firstReturn, node_id, children)
          /\ lastReturn' = Put(lastReturn, node_id, children)
    /\ gcCalls' = [gcCalls EXCEPT ![node_id] = @ + 1]
    /\ UNCHANGED <<json_data, ixClass, ixStatus, self_docs>>
    /\ UNCHANGED notIx

(***************************************************************************)
(* Recursive walks: TanaParser.count_descendants / get_tree_depth and      *)
(* TanaOutlineGenerator._print_children / _print_children_simple           *)
(***************************************************************************)
\* the depth of the interpreter's call stack at which a call raises
\* RecursionError
MaxRecursion == 5

\* largest max_depth argument of the inputs
MaxDepthArg == 2

\* max_children = 10
MaxChildren == 10

ParserFns == {"count_descendants", "get_tree_depth"}
PrintFns == {"_print_children", "_print_children_simple"}

\* a plausible slip: an off-by-one in the depth guard
DepthExceededLate(depth, max_depth) == depth > max_depth + 1

\* if depth > self.max_depth: return
DepthExceeded(depth, max_depth) == depth > max_depth

Min(a, b) == IF a < b THEN a ELSE b
Max(a, b) == IF a > b THEN a ELSE b

\* whether the call returns at the depth guard, before get_children
ReturnsAtGuard(fn, depth) == fn \in PrintFns /\ DepthExceeded(depth, wkMaxDepth)

\* the invocation fn(node_id, depth) as it enters its loop: its children
\* (the first max_children of them in the print functions), the loop index
\* and the accumulator (count / max_child_depth)
Frame(fn, node_id, depth) ==
    LET children == IF ReturnsAtGuard(fn, depth) THEN <<>> ELSE ChildrenOf(node_id)
    IN [fn |-> fn, node |-> node_id, depth |-> depth,
        children |-> IF fn \in PrintFns
                     THEN SubSeq(children, 1, Min(Len(children), MaxChildren))
                     ELSE children,
        remaining |-> Len(children) - MaxChildren,
        idx |-> 1, acc |-> 0]

\* self.children_cache[node_id] = children, in TanaParser.get_children
CacheAfter(fn, node_id, depth) ==
    IF ixClass = "TanaParser" /\ ~ReturnsAtGuard(fn, depth)
    THEN Put(children_cache, node_id, ChildrenOf(node_id))
    ELSE children_cache

\* what a finished invocation returns
ReturnValue(frame) ==
    CASE frame.fn = "count_descendants" -> frame.acc
      [] frame.fn = "get_tree_depth" ->
             IF frame.children = <<>> THEN 0 ELSE frame.acc + 1
      [] OTHER -> 0

\* the caller's frame after the call returned ret: count += 1 + ret,
\* max_child_depth = max(max_child_depth, ret), and the loop moves on
AfterCall(frame, ret) ==
    [frame EXCEPT !.idx = @ + 1,
                  !.acc = CASE frame.fn = "count_descendants" -> @ + 1 + ret
                            [] frame.fn = "get_tree_depth" -> Max(@, ret)
                            [] OTHER -> @]

\* the function a frame calls on a child, and the depth it passes
Callee(frame) ==
    IF frame.fn = "print_home_children_list" THEN "_print_children_simple" ELSE frame.fn
CalleeDepth(frame) ==
    IF frame.fn = "print_home_children_list" THEN 2 ELSE frame.depth + 1

\* print_home_children_list calls _print_children_simple only if max_depth > 1
CallsOnChild(frame) ==
    frame.fn = "print_home_children_list" => wkMaxDepth > 1

\* the line a frame prints for a child before it recurses
PrintedLine(frame, child_id) ==
    [by |-> frame.fn, id |-> child_id, depth |-> frame.depth]

Prints(frame) == frame.fn \in PrintFns \cup {"print_home_children_list"}

WalkModes == ParserFns \cup {"_print_children", "print_home_children_list"}

WalkerIdle ==
    /\ wkMode = "off"
    /\ wkPc = "off"
    /\ wkStart = NoValue
    /\ wkMaxDepth = 0
    /\ wkStack = <<>>
    /\ wkCalls = 0
    /\ wkPrinted = <<>>
    /\ wkResult = 0

\* count_descendants(x), get_tree_depth(x), print_outline with a start node
\* (_print_children(x, depth=1)) or print_home_children_list(max_depth)
WalkStart ==
    /\ wkPc = "ready"
    /\ wkPc' = "running"
    /\ IF wkMode = "print_home_children_list"
       THEN /\ wkStack' = <<[Frame(wkMode, wkStart, 1) EXCEPT !.remaining = 0]>>
            /\ wkCalls' = wkCalls
       ELSE /\ wkStack' = <<Frame(wkMode, wkStart, 1)>>
            /\ wkCalls' = wkCalls + 1
    /\ children_cache' = CacheAfter(wkMode, wkStart, 1)
    /\ UNCHANGED <<wkMode, wkStart, wkMaxDepth, wkPrinted, wkResult>>
    /\ UNCHANGED <<json_data, ixClass, ixStatus, self_docs, gcCalls, firstReturn, lastReturn>>
    /\ UNCHANGED notWk

\* one loop iteration that calls the function on the next child
WalkDescend ==
    /\ wkPc = "running"
    /\ wkStack # <<>>
    /\ LET frame == wkStack[Len(wkStack)]
       IN /\ frame.idx <= Len(frame.children)
          /\ CallsOnChild(frame)
          /\ LET child_id == frame.children[frame.idx]
             IN /\ wkPrinted' = IF Prints(frame)
                                THEN Append(wkPrinted, PrintedLine(frame, child_id))
                                ELSE wkPrinted
                /\ IF Len(wkStack) >= MaxRecursion
                   THEN /\ wkPc' = "raised"
                        /\ UNCHANGED <<wkStack, wkCalls, children_cache>>
                   ELSE /\ wkPc' = wkPc
                        /\ wkStack' = Append(wkStack,
                               Frame(Callee(frame), child_id, CalleeDepth(frame)))
                        /\ wkCalls' = wkCalls + 1
                        /\ children_cache' =
                               CacheAfter(Callee(frame), child_id, CalleeDepth(frame))
    /\ UNCHANGED <<wkMode, wkStart, wkMaxDepth, wkResult>>
    /\ UNCHANGED <<json_data, ixClass, ixStatus, self_docs, gcCalls, firstReturn, lastReturn>>
    /\ UNCHANGED notWk

\* one loop iteration of print_home_children_list with max_depth <= 1:
\* the child is printed and no call is made
WalkSkip ==
    /\ wkPc = "running"
    /\ wkStack # <<>>
    /\ LET frame == wkStack[Len(wkStack)]
       IN /\ frame.idx <= Len(frame.children)
          /\ ~CallsOnChild(frame)
          /\ wkPrinted' = Append(wkPrinted, PrintedLine(frame, frame.children[frame.idx]))
          /\ wkStack' = [wkStack EXCEPT ![Len(wkStack)].idx = @ + 1]
    /\ UNCHANGED <<wkMode, wkPc, wkStart, wkMaxDepth, wkCalls, wkResult>>
    /\ UNCHANGED ixVars
    /\ UNCHANGED notWk

\* the loop is over: the invocation returns to its caller
WalkReturn ==
    /\ wkPc = "running"
    /\ wkStack # <<>>
    /\ LET frame == wkStack[Len(wkStack)]
           rest == SubSeq(wkStack, 1, Len(wkStack) - 1)
       IN /\ frame.idx > Len(frame.children)
          /\ wkPrinted' = IF frame.fn \in PrintFns /\ frame.remaining > 0
                          THEN Append(wkPrinted, PrintedLine(frame, "more"))
                          ELSE wkPrinted
          /\ IF rest = <<>>
             THEN /\ wkStack' = <<>>
                  /\ wkPc' = "done"
                  /\ wkResult' = ReturnValue(frame)
             ELSE /\ wkStack' = [rest EXCEPT ![Len(rest)] = AfterCall(@, ReturnValue(frame))]
                  /\ wkPc' = wkPc
                  /\ wkResult' = wkResult
    /\ UNCHANGED <<wkMode, wkStart, wkMaxDepth, wkCalls>>
    /\ UNCHANGED ixVars
    /\ UNCHANGED notWk

\* ---- inputs of the walks: three documents, any parent links
WalkerDocs ==
    { << Doc("d1", p1, Absent), Doc("d2", p2, Absent), Doc("d3", p3, Absent) >> :
        p1 \in {NoValue} \cup GraphIds,
        p2 \in {NoValue} \cup GraphIds,
        p3 \in {NoValue} \cup GraphIds }

(***************************************************************************)
(* TanaParser.get_statistics and TanaParser.get_path                       *)
(***************************************************************************)
\* a Python value that is falsy where an id is expected: None or ''
Falsy(id) == id \in {NoValue, ""}

\* the ids of the inputs that start with 'SYS_'
SystemIds == {"SYS_1"}

\* is_system_node: node_id.startswith('SYS_') if node_id else False
IsSystemNode(node_id) == ~Falsy(node_id) /\ node_id \in SystemIds

HasNode(index, node_id) == \E i \in 1..Len(index) : index[i].id = node_id

\* get_node(node_id): self.nodes_index.get(node_id)
GetNode(index, node_id) == index[CHOOSE i \in 1..Len(index) : index[i].id = node_id]

\* get_parent: the node's parentId, None for an id that is not in the index
GetParent(index, node_id) ==
    IF HasNode(index, node_id) THEN GetNode(index, node_id).parentId ELSE NoValue

\* is_root_node: not node.get('parentId')
IsRootNode(index, node_id) ==
    HasNode(index, node_id) /\ Falsy(GetNode(index, node_id).parentId)

\* get_root_nodes: the ids of the index, in order, that are roots and not
\* system nodes
GetRootNodes(index) ==
    LET Keep(doc) == IsRootNode(index, doc.id) /\ ~IsSystemNode(doc.id)
    IN IdsOf(SelectSeq(index, Keep))

\* the while loop of get_path
RECURSIVE PathLoop(_, _, _)
PathLoop(index, path, current) ==
    IF Falsy(current) \/ (\E i \in 1..Len(path) : path[i] = current)
    THEN path
    ELSE PathLoop(index, Append(path, current), GetParent(index, current))

Reversed(list) == [i \in 1..Len(list) |-> list[Len(list) + 1 - i]]

\* get_tree_depth(node_id) called with `frames` calls on the stack: whether
\* RecursionError was raised, the depth returned, and the ids get_children
\* was called on
RECURSIVE TreeDepthCall(_, _, _, _)
RECURSIVE TreeDepthLoop(_, _, _, _, _, _)
TreeDepthCall(index, node_id, frames, asked) ==
    IF frames > MaxRecursion
    THEN [raised |-> TRUE, depth |-> 0, asked |-> asked]
    ELSE LET children == ComputeChildren(index, node_id)
             r == TreeDepthLoop(index, children, 1, frames, 0, asked \cup {node_id})
         IN IF children = <<>>
            THEN [raised |-> FALSE, depth |-> 0, asked |-> asked \cup {node_id}]
            ELSE [r EXCEPT !.depth = IF r.raised THEN 0 ELSE @ + 1]

TreeDepthLoop(index, children, k, frames, max_child_depth, asked) ==
    IF k > Len(children)
    THEN [raised |-> FALSE, depth |-> max_child_depth, asked |-> asked]
    ELSE LET r == TreeDepthCall(index, children[k], frames + 1, asked)
         IN IF r.raised THEN r
            ELSE TreeDepthLoop(index, children, k + 1, frames,
                               Max(max_child_depth, r.depth), r.asked)

\* self.get_root_nodes()[:10]
RootSample == 10

\* the loop of get_statistics over the sampled roots
RECURSIVE RootDepthLoop(_, _, _, _, _)
RootDepthLoop(index, roots, k, max_depth, asked) ==
    IF k > Len(roots) \/ k > RootSample
    THEN [raised |-> FALSE, depth |-> max_depth, asked |-> asked]
    ELSE LET r == TreeDepthCall(index, roots[k], 2, asked)
         IN IF r.raised THEN r
            ELSE RootDepthLoop(index, roots, k + 1, Max(max_depth, r.depth), r.asked)

NoStatistics ==
    [raised |-> FALSE, total_nodes |-> 0, root_nodes |-> 0, system_nodes |-> 0,
     user_nodes |-> 0, max_depth |-> 0, nodes_with_children |-> 0, leaf_nodes |-> 0]

\* children_cache after get_children was called on the ids asked
CacheWith(index, asked) ==
    [id \in (DOMAIN children_cache) \cup asked |->
        IF id \in DOMAIN children_cache THEN children_cache[id]
        ELSE ComputeChildren(index, id)]

\* get_statistics()
GetStatistics ==
    /\ wkMode = "get_statistics"
    /\ wkPc = "ready"
    /\ LET index == self_docs
           ids == {index[i].id : i \in 1..Len(index)}
           roots == GetRootNodes(index)
           r == RootDepthLoop(index, roots, 1, 0, {})
           parents == {id \in ids : ComputeChildren(index, id) # <<>>}
       IN IF r.raised
          THEN /\ wkPc' = "raised"
               /\ wkResult' = [NoStatistics EXCEPT !.raised = TRUE]
               /\ children_cache' = CacheWith(index, r.asked)
          ELSE /\ wkPc' = "done"
               /\ wkResult' =
                      [raised |-> FALSE,
                       total_nodes |-> Len(index),
                       root_nodes |-> Len(roots),
                       system_nodes |-> Cardinality({id \in ids : IsSystemNode(id)}),
                       user_nodes |-> Cardinality({id \in ids : ~IsSystemNode(id)}),
                       max_depth |-> r.depth,
                       nodes_with_children |-> Cardinality(parents),
                       leaf_nodes |-> Cardinality(ids \ parents)]
               /\ children_cache' = CacheWith(index, ids)
    /\ UNCHANGED <<wkMode, wkStart, wkMaxDepth, wkStack, wkCalls, wkPrinted>>
    /\ UNCHANGED <<json_data, ixClass, ixStatus, self_docs, gcCalls, firstReturn, lastReturn>>
    /\ UNCHANGED notWk

\* get_path(node_id)
GetPath ==
    /\ wkMode = "get_path"
    /\ wkPc = "ready"
    /\ wkPc' = "done"
    /\ wkResult' = Reversed(PathLoop(self_docs, <<>>, wkStart))
    /\ UNCHANGED <<wkMode, wkStart, wkMaxDepth, wkStack, wkCalls, wkPrinted>>
    /\ UNCHANGED ixVars
    /\ UNCHANGED notWk

\* ---- inputs of the queries: three documents and a system document with
\* any parent links, a dangling parentId included; a chain as deep as the
\* interpreter's stack; a document with id '' below a root with parentId ''
DanglingId == "zz"

ParentChoices == {NoValue, "d1", "d2", "d3", DanglingId}

SmallGraphs ==
    { << Doc("d1", p1, Absent), Doc("d2", p2, Absent), Doc("d3", p3, Absent),
         Doc("SYS_1", NoValue, Absent) >> :
        p1 \in ParentChoices, p2 \in ParentChoices, p3 \in ParentChoices }

ChainIds == <<"d1", "d2", "d3", "k4", "k5", "k6", "k7", "k8">>

ChainGraph ==
    [i \in 1..Min(MaxRecursion, Len(ChainIds)) |->
        Doc(ChainIds[i], IF i = 1 THEN NoValue ELSE ChainIds[i - 1], Absent)]

EmptyIdGraph == << Doc("d1", "", Absent), Doc("", "d1", Absent) >>

QueryGraphs == SmallGraphs \cup {ChainGraph, EmptyIdGraph}

QueryModes == {"get_statistics", "get_path"}

(***************************************************************************)
(* NodeEditor: TanaJSONParser.append_to_node (lib/tana_json_parser.py)     *)
(***************************************************************************)
NL == "\n"

\* sep.join(parts)
RECURSIVE Join(_, _)
Join(parts, sep) ==
    IF parts = <<>> THEN <<>>
    ELSE IF Len(parts) = 1 THEN parts[1]
    ELSE parts[1] \o sep \o Join(Tail(parts), sep)

\* s.split('\n'): the lines of s, one more than it has newlines
RECURSIVE SplitFrom(_, _, _)
SplitFrom(s, i, line) ==
    IF i > Len(s) THEN <<line>>
    ELSE IF s[i] = NL THEN <<line>> \o SplitFrom(s, i + 1, <<>>)
    ELSE SplitFrom(s, i + 1, Append(line, s[i]))

SplitLines(s) == SplitFrom(s, 1, <<>>)

IsSpace(c) == c \in {" ", NL, "\t"}

\* s.strip()
RECURSIVE StripLeft(_)
StripLeft(s) == IF s # <<>> /\ IsSpace(Head(s)) THEN StripLeft(Tail(s)) ELSE s
RECURSIVE StripRight(_)
StripRight(s) ==
    IF s # <<>> /\ IsSpace(s[Len(s)]) THEN StripRight(SubSeq(s, 1, Len(s) - 1)) ELSE s
Strip(s) == StripRight(StripLeft(s))

\* sub in s
Contains(s, sub) ==
    \E i \in 1..(Len(s) - Len(sub) + 1) : SubSeq(s, i, i + Len(sub) - 1) = sub

\* lines.insert(i, x), for a 1-based position i
InsertAt(lines, i, x) ==
    SubSeq(lines, 1, i - 1) \o <<x>> \o SubSeq(lines, i, Len(lines))

SupertagWord == <<"s","u","p","e","r","t","a","g">>

\* is_supertag: type == "supertag", or "supertag" in the lowered name, or a
\* uid starting with "supertag_" (the nodes of the inputs carry no fields)
IsSupertag(node) ==
    \/ node.type = "supertag"
    \/ Contains(Lower(node.name), SupertagWord)
    \/ node.uid \in {"supertag_1"}

\* extract_content: the node's own content, then the non-empty contents of
\* its children that are not supertags, joined by newlines
RECURSIVE ExtractContent(_)
RECURSIVE ChildContents(_, _)
ChildContents(children, i) ==
    IF i > Len(children) THEN <<>>
    ELSE LET child_content == IF IsSupertag(children[i]) THEN <<>>
                              ELSE ExtractContent(children[i])
         IN (IF child_content # <<>> THEN <<child_content>> ELSE <<>>)
            \o ChildContents(children, i + 1)

ExtractContent(node) ==
    Join((IF node.hasContent THEN <<node.content>> ELSE <<>>)
         \o ChildContents(node.children, 1), <<NL>>)

\* the first line matching the section: line.strip() == "## " + section or
\* section.lower() in line.lower(); 0 when no line matches
SectionLine(lines, section) ==
    LET matches == {i \in 1..Len(lines) :
                       \/ Strip(lines[i]) = <<"#", "#", " ">> \o section
                       \/ Contains(Lower(lines[i]), Lower(section))}
    IN IF matches = {} THEN 0
       ELSE CHOOSE i \in matches : \A j \in matches : i <= j

\* insert_before_section
InsertBeforeSection(content, section, new_content) ==
    LET lines == SplitLines(content)
        i == SectionLine(lines, section)
    IN Join(IF i = 0 THEN lines ELSE InsertAt(lines, i, <<NL>> \o new_content), <<NL>>)

\* the while loop of insert_after_section: skip the lines of the section
\* body, up to a heading, a blank line or the end
RECURSIVE SectionEnd(_, _)
SectionEnd(lines, pos) ==
    IF /\ pos <= Len(lines)
       /\ ~StartsWith(Strip(lines[pos]), <<"#", "#">>)
       /\ Strip(lines[pos]) # <<>>
    THEN SectionEnd(lines, pos + 1)
    ELSE pos

\* insert_after_section
InsertAfterSection(content, section, new_content) ==
    LET lines == SplitLines(content)
        i == SectionLine(lines, section)
    IN Join(IF i = 0 THEN lines
            ELSE InsertAt(lines, SectionEnd(lines, i + 1), <<NL>> \o new_content),
            <<NL>>)

\* a plausible slip: a single newline between the new and the old content
ModifiedContentOneNewline(current_content, content, position, section) ==
    IF position = "start"
    THEN content \o (IF current_content # <<>> THEN <<NL>> \o current_content ELSE <<>>)
    ELSE current_content \o (IF current_content # <<>> THEN <<NL>> \o content ELSE content)

\* modify_node_content: the new content for a position
ModifiedContent(current_content, content, position, section) ==
    LET new_content == IF current_content # <<>> THEN <<NL, NL>> \o content ELSE content
    IN CASE position = "start" ->
                content \o (IF current_content # <<>>
                            THEN <<NL, NL>> \o current_content ELSE <<>>)
         [] position = "end" -> current_content \o new_content
         [] position = "before_section" /\ section # <<>> ->
                InsertBeforeSection(current_content, section, content)
         [] position = "after_section" /\ section # <<>> ->
                InsertAfterSection(current_content, section, content)
         [] OTHER -> current_content \o new_content

\* modify_node_content: a copy of the node with the new content and the
\* edited timestamp (milliseconds)
ModifyNodeContent(node_data, content, position, section, now) ==
    [node_data EXCEPT
        !.hasContent = TRUE,
        !.content = ModifiedContent(ExtractContent(node_data), content, position, section),
        !.edited = now * 1000]

\* ---- the JSON document and its nodes
Node(uid, type, hasContent, content, children) ==
    [uid |-> uid, name |-> <<>>, type |-> type, hasContent |-> hasContent,
     content |-> content, children |-> children, edited |-> Absent]

\* a file that does not exist; a file json.load cannot turn into nodes
NoFile == [shape |-> "missing", nodes |-> <<>>]
InvalidFile == [shape |-> "invalid", nodes |-> <<>>]

\* raw_data when parse_tana_json found no file or caught an exception: {}
EmptyData == [shape |-> "empty", nodes |-> <<>>]

\* the pre-order list of a list of nodes and their descendants
RECURSIVE Preorder(_)
Preorder(nodes) ==
    IF nodes = <<>> THEN <<>>
    ELSE <<Head(nodes)>> \o Preorder(Head(nodes).children) \o Preorder(Tail(nodes))

\* the top-level object of a file that is neither a nodes object nor a
\* list, seen as a node: it has no uid and no children key
TopObject == Node(NoValue, "node", FALSE, <<>>, <<>>)

\* traverse_nodes(tana_data): "nodes" in tana_data, a list, or a single node
FlattenNodes(data) ==
    CASE data.shape \in {"nodes", "list", "single"} -> Preorder(data.nodes)
      [] data.shape = "docs" -> <<TopObject>>
      [] OTHER -> <<>>

\* parse_tana_json: json.load of the file, {} when the file is missing or
\* json.load / the indexing raised
ParseTanaJson(file) ==
    IF file.shape \in {"missing", "invalid"} THEN EmptyData ELSE file

\* if not raw_data: an empty dict or an empty list is falsy
IsFalsyData(data) ==
    \/ data.shape = "empty"
    \/ data.shape = "list" /\ data.nodes = <<>>

NoNode == Node(NoValue, "none", FALSE, <<>>, <<>>)

\* a plausible slip: falling back to the first node when the id is unknown
FindNodeByIdOrFirst(node_id, data) ==
    LET flat == FlattenNodes(data)
        hits == {i \in 1..Len(flat) : flat[i].uid = node_id}
    IN IF hits = {} THEN (IF flat = <<>> THEN NoNode ELSE flat[1])
       ELSE flat[CHOOSE i \in hits : \A j \in hits : i <= j]

\* find_node_by_id(node_id, raw_data): the first node of the traversal with
\* that uid, NoNode for None
FindNodeById(node_id, data) ==
    LET flat == FlattenNodes(data)
        hits == {i \in 1..Len(flat) : flat[i].uid = node_id}
    IN IF hits = {} THEN NoNode
       ELSE flat[CHOOSE i \in hits : \A j \in hits : i <= j]

\* find_and_update(nodes): replaces the first node, in pre-order, whose uid
\* is node_id; [found, nodes]
RECURSIVE FindAndUpdate(_, _, _)
FindAndUpdate(nodes, node_id, modified_node) ==
    IF nodes = <<>> THEN [found |-> FALSE, nodes |-> nodes]
    ELSE LET node == Head(nodes)
         IN IF node.uid = node_id
            THEN [found |-> TRUE, nodes |-> <<modified_node>> \o Tail(nodes)]
            ELSE LET inside == FindAndUpdate(node.children, node_id, modified_node)
                 IN IF inside.found
                    THEN [found |-> TRUE,
                          nodes |-> <<[node EXCEPT !.children = inside.nodes]>>
                                    \o Tail(nodes)]
                    ELSE LET after == FindAndUpdate(Tail(nodes), node_id, modified_node)
                         IN [found |-> after.found, nodes |-> <<node>> \o after.nodes]

\* update_node_in_json: [success, data]; a single-node structure is updated
\* only when the node is its top-level object
UpdateNodeInJson(node_id, modified_node, data) ==
    CASE data.shape \in {"nodes", "list"} ->
             LET r == FindAndUpdate(data.nodes, node_id, modified_node)
             IN [success |-> r.found, data |-> [data EXCEPT !.nodes = r.nodes]]
      [] data.shape = "single" /\ data.nodes[1].uid = node_id ->
             [success |-> TRUE, data |-> [data EXCEPT !.nodes = <<modified_node>>]]
      [] OTHER -> [success |-> FALSE, data |-> data]

\* the node backup file: the node's rendered content under its id
NodeBackupFile(node_id, node_data) ==
    [node_id |-> node_id, content |-> ExtractContent(node_data)]

\* append_to_node results
Success == [success |-> TRUE, error |-> ""]
Failure(error) == [success |-> FALSE, error |-> error]

\* a plausible slip: going on without looking at backup_result["success"]
ProceedAfterBackupAlways(backup_ok) == TRUE

\* if not backup_result["success"]: return {"success": False, ...}
ProceedAfterBackup(backup_ok) == backup_ok

\* largest value of the clock
MaxClock == 1

\* append_to_node calls per caller
MaxRuns == 2

Callers == {"c1", "c2"}

NoSnapshot == [source |-> NoFile, nodeBackups |-> EmptyDict, fileBackups |-> EmptyDict]

CallerOff(args) ==
    [pc |-> "off", args |-> args, runs |-> 0, raw_data |-> EmptyData,
     node_data |-> NoNode, modified_node |-> NoNode, result |-> Failure(""),
     ops |-> <<>>, snap |-> NoSnapshot,
     cached_data |-> EmptyData, cache_timestamp |-> Absent]

NoArgs == [node_id |-> NoValue, content |-> <<>>, position |-> "end", section |-> <<>>]

EditorIdle ==
    /\ clock = 0
    /\ fsSource = NoFile
    /\ fsNodeBackups = EmptyDict
    /\ fsFileBackups = EmptyDict
    /\ ed = [c \in Callers |-> CallerOff(NoArgs)]

\* append_to_node, from its entry to the backup: get_fresh_data with
\* force_refresh=True reads the file, then the node is looked up in raw_data
AppendBegin(c) ==
    /\ ed[c].pc \in {"idle", "done"}
    /\ ed[c].runs < MaxRuns
    /\ LET raw_data == ParseTanaJson(fsSource)
           node_data == FindNodeById(ed[c].args.node_id, raw_data)
           started == [ed[c] EXCEPT
                          !.runs = @ + 1,
                          !.raw_data = raw_data,
                          !.node_data = node_data,
                          !.modified_node = NoNode,
                          !.ops = <<>>,
                          !.snap = [source |-> fsSource,
                                    nodeBackups |-> fsNodeBackups,
                                    fileBackups |-> fsFileBackups],
                          !.cached_data = raw_data,
                          !.cache_timestamp = clock]
       IN ed' = [ed EXCEPT ![c] =
                    IF IsFalsyData(raw_data)
                    THEN [started EXCEPT !.pc = "done", !.result = Failure("no_data")]
                    ELSE IF node_data = NoNode
                    THEN [started EXCEPT !.pc = "done", !.result = Failure("not_found")]
                    ELSE [started EXCEPT !.pc = "found"]]
    /\ UNCHANGED <<clock, fsSource, fsNodeBackups, fsFileBackups>>
    /\ UNCHANGED notEd

\* create_node_backup writes the node backup file (the write may fail);
\* then modify_node_content and update_node_in_json work in memory
AppendNodeBackup(c) ==
    /\ ed[c].pc = "found"
    /\ \E backup_ok \in BOOLEAN :
          LET args == ed[c].args
              modified_node == ModifyNodeContent(ed[c].node_data, args.content,
                                                 args.position, args.section, clock)
              update_result == UpdateNodeInJson(args.node_id, modified_node, ed[c].raw_data)
              logged == [ed[c] EXCEPT !.ops = Append(@,
                            IF backup_ok THEN "node_backup" ELSE "node_backup_failed")]
          IN /\ fsNodeBackups' =
                    IF backup_ok
                    THEN Put(fsNodeBackups, <<args.node_id, clock>>,
                             NodeBackupFile(args.node_id, ed[c].node_data))
                    ELSE fsNodeBackups
             /\ ed' = [ed EXCEPT ![c] =
                    IF ~ProceedAfterBackup(backup_ok)
                    THEN [logged EXCEPT !.pc = "done", !.result = Failure("backup_failed")]
                    ELSE IF ~update_result.success
                    THEN [logged EXCEPT !.pc = "done", !.result = Failure("update_failed"),
                                        !.modified_node = modified_node]
                    ELSE [logged EXCEPT !.pc = "updated",
                                        !.modified_node = modified_node,
                                        !.raw_data = update_result.data,
                                        !.cached_data = update_result.data]]
    /\ UNCHANGED <<clock, fsSource, fsFileBackups>>
    /\ UNCHANGED notEd

\* save_modified_json, first half: shutil.copy2 of the source file to the
\* timestamped backup, when the source file exists (the copy may fail)
AppendFileBackup(c) ==
    /\ ed[c].pc = "updated"
    /\ IF fsSource.shape = "missing"
       THEN /\ ed' = [ed EXCEPT ![c].pc = "copied"]
            /\ UNCHANGED fsFileBackups
       ELSE \E copy_ok \in BOOLEAN :
               IF copy_ok
               THEN /\ fsFileBackups' = Put(fsFileBackups, clock, fsSource)
                    /\ ed' = [ed EXCEPT ![c].pc = "copied",
                                        ![c].ops = Append(@, "file_backup")]
               ELSE /\ UNCHANGED fsFileBackups
                    /\ ed' = [ed EXCEPT ![c].pc = "done",
                                        ![c].ops = Append(@, "file_backup_failed"),
                                        ![c].result = Failure("save_failed")]
    /\ UNCHANGED <<clock, fsSource, fsNodeBackups>>
    /\ UNCHANGED notEd

\* a plausible slip: leaving the file as it is on disk
DumpedJsonKeepsFile(data, on_disk) == on_disk

\* json.dump(json_data, f): the file becomes the caller's in-memory data,
\* whatever it holds on disk at that moment
DumpedJson(data, on_disk) == data

\* save_modified_json, second half: open(source_file, 'w') and json.dump;
\* open may fail, and a dump that fails leaves a truncated file.  On
\* success append_to_node clears its cache and returns success
AppendWrite(c) ==
    /\ ed[c].pc = "copied"
    /\ \E outcome \in {"ok", "open_failed", "dump_failed"} :
          CASE outcome = "ok" ->
                  /\ fsSource' = DumpedJson(ed[c].raw_data, fsSource)
                  /\ ed' = [ed EXCEPT ![c].pc = "done",
                                      ![c].ops = Append(@, "write"),
                                      ![c].result = Success,
                                      ![c].cached_data = EmptyData,
                                      ![c].cache_timestamp = Absent]
            [] outcome = "open_failed" ->
                  /\ UNCHANGED fsSource
                  /\ ed' = [ed EXCEPT ![c].pc = "done",
                                      ![c].result = Failure("save_failed")]
            [] outcome = "dump_failed" ->
                  /\ fsSource' = InvalidFile
                  /\ ed' = [ed EXCEPT ![c].pc = "done",
                                      ![c].ops = Append(@, "write"),
                                      ![c].result = Failure("save_failed")]
    /\ UNCHANGED <<clock, fsNodeBackups, fsFileBackups>>
    /\ UNCHANGED notEd

\* a second passes
Tick ==
    /\ clock < MaxClock
    /\ clock' = clock + 1
    /\ UNCHANGED <<fsSource, fsNodeBackups, fsFileBackups, ed>>
    /\ UNCHANGED notEd

\* ---- inputs of the editor
cX == <<"x">>
cHeadingX == <<"#", "#", " ", "S", NL, "x">>
NewContent == <<"c">>

ChildC == Node("c", "node", TRUE, <<"z">>, <<>>)
ChildTag == Node("supertag_1", "supertag", TRUE, <<"t">>, <<>>)
NodeB == Node("b", "node", TRUE, <<"y">>, <<ChildC, ChildTag>>)

\* a top-level node that carries the uid of a node nested before it
SecondC == Node("c", "node", TRUE, <<"w">>, <<>>)

NodeAChoices ==
    { Node("a", "node", FALSE, <<>>, <<>>),
      Node("a", "node", TRUE, <<>>, <<>>),
      Node("a", "node", TRUE, cX, <<>>),
      Node("a", "node", TRUE, cHeadingX, <<>>) }

SourceFiles ==
    {[shape |-> sh, nodes |-> <<a, NodeB>>] : sh \in {"nodes", "list"}, a \in NodeAChoices}
    \cup { [shape |-> "single", nodes |-> <<NodeB>>],
           [shape |-> "nodes", nodes |-> <<NodeB, SecondC>>],
           [shape |-> "docs", nodes |-> <<>>],
           [shape |-> "nodes", nodes |-> <<>>],
           [shape |-> "list", nodes |-> <<>>],
           InvalidFile, NoFile }

Positions == {"start", "end", "before_section", "after_section", "middle"}

\* two callers, each with its own content, on the same node or on two nodes,
\* each making the last call its budget allows
OtherContent == <<"d">>

RaceArgs(node_id, content) ==
    [node_id |-> node_id, content |-> content, position |-> "end", section |-> <<>>]

RaceSources ==
    {[shape |-> sh, nodes |-> <<Node("a", "node", TRUE, cX, <<>>), NodeB>>] :
        sh \in {"nodes", "list"}}

ArgChoices ==
    [node_id : {"a", "b", "c", "zz"}, content : {NewContent},
     position : Positions, section : {<<>>, <<"S">>}]

(***************************************************************************)
(* TanaImporter.import_file                                                *)
(***************************************************************************)
\* an id as text, so that it can be compared with a tag name
IdText(id) == <<id>>

\* supertag_name.replace(' ', '-').lower()
DirName(supertag_name) ==
    Lower([i \in 1..Len(supertag_name) |->
              IF supertag_name[i] = " " THEN "-" ELSE supertag_name[i]])

MdSuffix == ".md"

\* export_dir / dir / file
Path(dir, file) == [dir |-> dir, file |-> file]

\* supertag_dir / f"{node_id}.md"
NodeFilePath(supertag_name, node_id) ==
    Path(DirName(supertag_name), <<node_id, MdSuffix>>)

\* supertag_dir / f"{dir_name}.md"
IndexFilePath(supertag_name) ==
    Path(DirName(supertag_name), Append(DirName(supertag_name), MdSuffix))

SuperTagsMd == Path(<<>>, <<"SuperTags", MdSuffix>>)
HomeMd == Path(<<>>, <<"Home", MdSuffix>>)
ImportSummaryMd == Path(<<>>, <<"import-summary", MdSuffix>>)

\* the files create_supertag_directories writes
SupertagFiles(nbs) ==
    UNION { {NodeFilePath(tag, nbs[tag][i].node_id) : i \in 1..Len(nbs[tag])}
            \cup {IndexFilePath(tag)} : tag \in DOMAIN nbs }

\* total_files_created: one per node file written, one per index file
TotalFilesCreated(nbs, tags) ==
    LET Sum[S \in SUBSET tags] ==
            IF S = {} THEN 0
            ELSE LET tag == CHOOSE t \in S : TRUE
                 IN Len(nbs[tag]) + 1 + Sum[S \ {tag}]
    IN Sum[tags]

\* the longest supertags array of the documents
MaxSupertagsLen(docs) ==
    IF docs = <<>> THEN 0
    ELSE CHOOSE n \in {Len(docs[i].supertags) : i \in 1..Len(docs)} :
            \A i \in 1..Len(docs) : Len(docs[i].supertags) <= n

\* extract_all_supertags: the ids of tagDef documents and of the entries of
\* supertags arrays, each with a non-empty id and name
ExtractAllSupertags(docs) ==
    {docs[i].id : i \in {j \in 1..Len(docs) :
                            /\ docs[j].docType = "tagDef"
                            /\ docs[j].id # ""
                            /\ docs[j].name # <<>>}}
    \cup UNION { {docs[i].supertags[s].id :
                     s \in {r \in 1..Len(docs[i].supertags) :
                               /\ docs[i].supertags[r].id # ""
                               /\ docs[i].supertags[r].name # <<>>}} :
                 i \in {j \in 1..Len(docs) : docs[j].docType # "tagDef"} }

\* supertags[tag_id]['count']: one per entry of a supertags array that names
\* the tag with a non-empty name; a tagDef document adds the tag with count 0
SupertagCounts(docs) ==
    [tag_id \in ExtractAllSupertags(docs) |->
        Cardinality({<<i, s>> \in (1..Len(docs)) \X (1..MaxSupertagsLen(docs)) :
                        /\ docs[i].docType # "tagDef"
                        /\ s <= Len(docs[i].supertags)
                        /\ docs[i].supertags[s].id = tag_id
                        /\ docs[i].supertags[s].name # <<>>})]

\* the name patterns of find_home_node
HomePatterns ==
    { <<"h","o","m","e">>, <<"r","o","o","t">>, <<"m","a","i","n">>,
      <<"s","t","a","r","t">> }

\* any(pattern in name for pattern in [...]) on doc.get('name', '').lower()
IsHomeLike(name) == \E pattern \in HomePatterns : Contains(Lower(name), pattern)

NoHomeNode == [StructDoc(NoValue, <<>>) EXCEPT !.docType = "none"]

\* find_home_node: the first document whose top-level name is home-like,
\* else the first document, else {}
FindHomeNode(docs) ==
    LET hits == {i \in 1..Len(docs) : IsHomeLike(docs[i].top_name)}
    IN IF hits # {} THEN docs[CHOOSE i \in hits : \A j \in hits : i <= j]
       ELSE IF docs # <<>> THEN docs[1]
       ELSE NoHomeNode

\* doc_lookup.get(child_id) with a child that is a node object (the nested
\* format) raises TypeError: unhashable type
ImporterRaises(data) ==
    /\ data.format = "nested"
    /\ \E i \in 1..Len(data.docs) : data.docs[i].children # <<>>

\* a plausible slip: looking at the files only
HasContentFilesOnly(total_markdown_files, supertags) ==
    total_markdown_files > 0

\* has_content = total_markdown_files > 0 or len(supertags) > 0
HasContent(total_markdown_files, supertags) ==
    total_markdown_files > 0 \/ supertags # {}

\* a plausible slip: never clearing
ClearsExportNever(clear_export, exists) == FALSE

\* if clear_export and self.tana_io.export_dir.exists(): shutil.rmtree
ClearsExport(clear_export, exists) == clear_export /\ exists

\* target_supertags - found_supertags: the keys of user_defined (tag ids)
\* less the keys of nodes_by_supertag (tag names)
MissingSupertags(keytags, nbs) ==
    {IdText(keytags[i].node_id) : i \in 1..Len(keytags)} \ DOMAIN nbs

\* issues
Issues(missing_supertags) ==
    IF missing_supertags # {}
    THEN <<[severity |-> "WARNING", missing |-> Cardinality(missing_supertags),
            details |-> missing_supertags]>>
    ELSE <<>>

NoDir == [exists |-> FALSE, files |-> EmptyDict]

\* writing files into the directory, each stamped with the run that wrote it
WriteFiles(files, paths, run) ==
    [p \in (DOMAIN files) \cup paths |-> IF p \in paths THEN run ELSE files[p]]

NoResult ==
    [returned |-> FALSE, raised |-> FALSE, clear_export |-> FALSE, success |-> FALSE,
     supertags_found |-> 0, nodes_processed |-> 0, directories_created |-> 0,
     issues |-> <<>>, summary_file |-> FALSE, nodes_by_supertag |-> EmptyDict,
     export_dir_exists |-> FALSE, before |-> NoDir, supertag_counts |-> EmptyDict,
     home_node |-> NoHomeNode]

\* largest number of import_file calls
MaxImports == 2

ImporterIdle ==
    /\ imData = [format |-> "flat", docs |-> <<>>]
    /\ imKeytags = <<>>
    /\ exportDir = NoDir
    /\ imRun = 0
    /\ imResult = NoResult

\* import_file(import_file, clear_export)
ImportFile(clear_export) ==
    /\ imRun < MaxImports
    /\ imRun' = imRun + 1
    /\ LET run == imRun + 1
           docs == imData.docs
           \* lines 775-778
           kept == IF ClearsExport(clear_export, exportDir.exists)
                   THEN EmptyDict ELSE exportDir.files
           supertags == ExtractAllSupertags(docs)
           targets == TargetSupertags(imKeytags)
           nbs == TraverseNodes(EmptyDict, docs, 1,
                                BuildMetaNodeToSupertag(docs, targets), targets)
           total_markdown_files == TotalFilesCreated(nbs, DOMAIN nbs)
           has_content == HasContent(total_markdown_files, supertags)
           issues == Issues(MissingSupertags(imKeytags, nbs))
           content_files == SupertagFiles(nbs) \cup {SuperTagsMd, HomeMd}
           final == IF has_content
                    THEN [exists |-> TRUE,
                          files |-> WriteFiles(kept, content_files \cup {ImportSummaryMd}, run)]
                    ELSE NoDir
       IN IF ImporterRaises(imData)
          THEN /\ exportDir' = [exists |-> TRUE, files |-> kept]
               /\ imResult' = [NoResult EXCEPT !.raised = TRUE,
                                               !.clear_export = clear_export,
                                               !.before = exportDir]
          ELSE /\ exportDir' = final
               /\ imResult' =
                      [returned |-> TRUE, raised |-> FALSE, clear_export |-> clear_export,
                       success |-> TRUE,
                       supertags_found |-> Cardinality(supertags),
                       nodes_processed |-> total_markdown_files,
                       directories_created |-> Cardinality(DOMAIN nbs),
                       issues |-> issues,
                       summary_file |-> has_content,
                       nodes_by_supertag |-> nbs,
                       export_dir_exists |-> final.exists,
                       before |-> exportDir,
                       supertag_counts |-> SupertagCounts(docs),
                       home_node |-> IF has_content THEN FindHomeNode(docs)
                                     ELSE NoHomeNode]
    /\ UNCHANGED <<imData, imKeytags>>
    /\ UNCHANGED notIm

\* ---- inputs of the importer
NodeA ==
    [id |-> "A", children |-> <<>>, name |-> <<"a">>, docType |-> NoValue,
     metaNodeId |-> NoValue, supertags |-> <<[id |-> "t1", name |-> PjName]>>,
     top_name |-> <<>>]
NodeA2 ==
    [id |-> "A2", children |-> <<>>, name |-> <<"a","2">>, docType |-> NoValue,
     metaNodeId |-> NoValue, supertags |-> <<[id |-> "t2", name |-> TkName]>>,
     top_name |-> <<>>]
NodeBPlain == [StructDoc("B", <<>>) EXCEPT !.name = <<"b">>]
TagDefPj == [StructDoc("t1", <<>>) EXCEPT !.name = PjName, !.docType = "tagDef"]
\* the two layouts of a name: under props, and as a top-level field
HomeName == <<"H","o","m","e">>
NodeATop == [NodeA EXCEPT !.id = "A4", !.name = <<>>, !.top_name = <<"a">>]
HomeProps == [StructDoc("h", <<>>) EXCEPT !.name = HomeName]
HomeTop == [StructDoc("h", <<>>) EXCEPT !.top_name = HomeName]
\* a node tagged through its meta node: N -> _metaNodeId m -> mc -> t1
NodeIndirect == [StructDoc("N", <<>>) EXCEPT !.name = <<"n">>, !.metaNodeId = "m"]
MetaDocs == <<StructDoc("m", <<"mc">>), StructDoc("mc", <<"t1">>)>>

ImporterGraphs ==
    { [format |-> "flat", docs |-> <<StructDoc("root", <<"A", "B">>), NodeA, NodeBPlain>>],
      [format |-> "nested", docs |-> <<StructDoc("root", <<NodeA, NodeBPlain>>)>>],
      [format |-> "nested", docs |-> <<NodeA, NodeBPlain>>],
      [format |-> "flat", docs |-> <<NodeBPlain>>],
      [format |-> "flat", docs |-> <<NodeBPlain, TagDefPj>>],
      [format |-> "flat", docs |-> <<NodeA, NodeA2>>],
      [format |-> "flat", docs |-> <<NodeBPlain, HomeProps, NodeA>>],
      [format |-> "flat", docs |-> <<NodeATop, HomeTop>>],
      [format |-> "flat", docs |-> <<NodeIndirect, TagDefPj>> \o MetaDocs],
      [format |-> "flat", docs |-> <<NodeA, NodeIndirect, TagDefPj>> \o MetaDocs],
      [format |-> "flat", docs |-> <<>>] }

ImporterKeytags == KeytagChoices \cup {<<>>, <<TagTk>>}

OldTop == Path(<<>>, <<"old", MdSuffix>>)
OldNested == Path(<<"p", "j">>, <<"x", MdSuffix>>)
OldNodeFile == Path(<<"p", "j">>, <<"A", MdSuffix>>)

OldFileChoices == SUBSET {OldTop, OldNested, OldNodeFile}

(***************************************************************************)
(* validate_tana_file                                                      *)
(***************************************************************************)
\* a TanaNode as json.loads delivers it; typed says whether the object has
\* the required string fields uid, name, created, edited and type
TifNode(uid, name, created, typed, children) ==
    [uid |-> uid, name |-> name, created |-> created, edited |-> "t",
     typed |-> typed, children |-> children]

TifVersion == "TanaIntermediateFile V0.1"

\* TanaFile(**data): pydantic validates every node, at every level
RECURSIVE AllTyped(_)
AllTyped(nodes) ==
    \A i \in 1..Len(nodes) : nodes[i].typed /\ AllTyped(nodes[i].children)

Invalid(error) == [returned |-> TRUE, valid |-> FALSE, error |-> error, nodes |-> <<>>]

\* the uids of a list of nodes and of everything below them, in pre-order
RECURSIVE UidsBelow(_)
UidsBelow(nodes) ==
    IF nodes = <<>> THEN <<>>
    ELSE <<Head(nodes).uid>> \o UidsBelow(Head(nodes).children) \o UidsBelow(Tail(nodes))

\* the first failing check of the loop over tana_file.nodes, "" when none
RECURSIVE NodeChecks(_, _, _)
NodeChecks(nodes, i, node_uids) ==
    IF i > Len(nodes) THEN ""
    ELSE LET node == nodes[i]
         IN IF node.uid = "" THEN "no_uid"
            ELSE IF node.name = "" THEN "no_name"
            ELSE IF node.uid \in node_uids THEN "duplicate_uid"
            ELSE IF node.created = "" THEN "no_created"
            ELSE IF node.edited = "" THEN "no_edited"
            ELSE NodeChecks(nodes, i + 1, node_uids \cup {node.uid})

\* validate_tana_file(content)
ValidateTanaFile(content) ==
    IF ~content.json_ok THEN Invalid("Invalid JSON")
    ELSE IF content.shape # "object" THEN Invalid("Unexpected error")
    ELSE IF ~AllTyped(content.nodes) THEN Invalid("Validation error")
    ELSE IF content.version # TifVersion THEN Invalid("Tana validation error")
    ELSE IF content.nodes = <<>> THEN Invalid("Tana validation error")
    ELSE IF NodeChecks(content.nodes, 1, {}) # "" THEN Invalid("Tana validation error")
    ELSE [returned |-> TRUE, valid |-> TRUE, error |-> "",
          nodes |-> [i \in 1..Len(content.nodes) |-> content.nodes[i].uid]]

NotValidated == [returned |-> FALSE, valid |-> FALSE, error |-> "", nodes |-> <<>>]

ValidatorIdle ==
    /\ vdContent = [json_ok |-> FALSE, shape |-> "object", version |-> "", nodes |-> <<>>]
    /\ vdResult = NotValidated

Validate ==
    /\ ~vdResult.returned
    /\ vdResult' = ValidateTanaFile(vdContent)
    /\ UNCHANGED vdContent
    /\ UNCHANGED notVd

\* ---- inputs of the validator
TifUids == {"a", "b"}
TifLeaves == {TifNode(u, "n", "t", ty, <<>>) : u \in TifUids, ty \in BOOLEAN}
TifChildLists ==
    {<<>>} \cup {<<l>> : l \in TifLeaves} \cup {<<l1, l2>> : l1, l2 \in TifLeaves}
    \cup {<<TifNode("b", "n", "t", TRUE, <<l>>)>> : l \in TifLeaves}
TifTops ==
    {TifNode(u, nm, cr, TRUE, ch) :
        u \in TifUids, nm \in {"", "n"}, cr \in {"", "t"}, ch \in TifChildLists}
TifSmallTops ==
    {TifNode(u, "n", "t", TRUE, ch) :
        u \in TifUids \cup {""}, ch \in {<<>>, <<TifNode("a", "n", "t", TRUE, <<>>)>>}}
TifNodeLists ==
    {<<>>} \cup {<<t>> : t \in TifTops} \cup {<<t1, t2>> : t1, t2 \in TifSmallTops}
TifContents ==
    {[json_ok |-> TRUE, shape |-> "object", version |-> TifVersion, nodes |-> ns] :
        ns \in TifNodeLists}
    \cup {[json_ok |-> ok, shape |-> sh, version |-> v,
           nodes |-> <<TifNode("a", "n", "t", TRUE, <<>>), TifNode("a", "n", "t", TRUE, <<>>)>>] :
            ok \in BOOLEAN, sh \in {"object", "list"}, v \in {TifVersion, "other"}}

(***************************************************************************)
(* TanaOutlineGenerator.identify_root_nodes                                *)
(***************************************************************************)
\* s.split(sep) for a one-character separator
RECURSIVE SplitOnFrom(_, _, _, _)
SplitOnFrom(s, sep, i, part) ==
    IF i > Len(s) THEN <<part>>
    ELSE IF s[i] = sep THEN <<part>> \o SplitOnFrom(s, sep, i + 1, <<>>)
    ELSE SplitOnFrom(s, sep, i + 1, Append(part, s[i]))

SplitOn(s, sep) == SplitOnFrom(s, sep, 1, <<>>)

SysPrefix == <<"S", "Y", "S", "_">>

\* the names promoted ahead of the others
OrganizationalNames ==
    { <<"H","o","m","e">>, <<"A","r","e","a","s">>,
      <<"P","r","o","j","e","c","t","s">>, <<"V","i","s","i","o","n">>,
      <<"C","a","l","e","n","d","a","r">>, <<"T","a","s","k","s">>,
      <<"L","i","b","r","a","r","y">>, <<"R","e","s","o","u","r","c","e","s">> }

\* doc_type in ['home', 'search'] or name in [...] or 'Hub' in name
IsPrioritized(doc) ==
    \/ doc.docType \in {"home", "search"}
    \/ doc.name \in OrganizationalNames
    \/ Contains(doc.name, <<"H", "u", "b">>)

DocIds(docs) == {docs[i].id : i \in 1..Len(docs)}
DocById(docs, id) == docs[CHOOSE i \in 1..Len(docs) : docs[i].id = id]

\* adding an id to a set, remembering when it first came in
AddCandidate(inserted, id) ==
    IF \E i \in 1..Len(inserted) : inserted[i] = id THEN inserted ELSE Append(inserted, id)

\* Strategy 1: the ids of the documents with a falsy parentId, in docs order
RECURSIVE ParentlessFrom(_, _, _)
ParentlessFrom(docs, i, inserted) ==
    IF i > Len(docs) THEN inserted
    ELSE ParentlessFrom(docs, i + 1,
             IF docs[i].parentId = <<>> THEN AddCandidate(inserted, docs[i].id)
             ELSE inserted)

\* Strategy 2: the last segment of each expanded path of two or more
\* segments, when it is a document id
RECURSIVE ExpandedFrom(_, _, _, _)
ExpandedFrom(docs, expanded_nodes, i, inserted) ==
    IF i > Len(expanded_nodes) THEN inserted
    ELSE LET parts == SplitOn(expanded_nodes[i], "+")
             node_id == parts[Len(parts)]
         IN ExpandedFrom(docs, expanded_nodes, i + 1,
                IF Len(parts) >= 2 /\ node_id \in DocIds(docs)
                THEN AddCandidate(inserted, node_id)
                ELSE inserted)

\* whether Strategy 2 runs: a workspace id was given, the export has
\* workspaces, the id is among them and its value parses as JSON
WorkspaceUsable(data) == data.workspace = "ok"

\* the orders in which a set can be iterated
IterationOrders(S) ==
    {f \in [1..Cardinality(S) -> S] : \A i, j \in 1..Cardinality(S) : i # j => f[i] # f[j]}

\* [x for x in seq if keep(x)], for the two tiers
RECURSIVE FilterSeq(_, _, _)
FilterSeq(seq, docs, wanted) ==
    IF seq = <<>> THEN <<>>
    ELSE (IF IsPrioritized(DocById(docs, Head(seq))) = wanted THEN <<Head(seq)>> ELSE <<>>)
         \o FilterSeq(Tail(seq), docs, wanted)

RECURSIVE DropSystem(_)
DropSystem(seq) ==
    IF seq = <<>> THEN <<>>
    ELSE (IF StartsWith(Head(seq), SysPrefix) THEN <<>> ELSE <<Head(seq)>>)
         \o DropSystem(Tail(seq))

RootsIdle ==
    /\ roData = [docs |-> <<>>, workspace |-> "none", expanded |-> <<>>]
    /\ roPc = "off"
    /\ root_candidates = {}
    /\ roInserted = <<>>
    /\ root_nodes = <<>>

\* Strategies 1 and 2: filling the set root_candidates
CollectRootCandidates ==
    /\ roPc = "start"
    /\ LET first == ParentlessFrom(roData.docs, 1, <<>>)
           all == IF WorkspaceUsable(roData)
                  THEN ExpandedFrom(roData.docs, roData.expanded, 1, first)
                  ELSE first
       IN /\ roInserted' = all
          /\ root_candidates' = {all[i] : i \in 1..Len(all)}
    /\ roPc' = "collected"
    /\ UNCHANGED <<roData, root_nodes>>
    /\ UNCHANGED notRo

\* Strategies 3 and 4: the set is iterated, in whatever order a set of
\* strings yields, system ids are dropped and the rest is split in two tiers
PrioritizeRoots ==
    /\ roPc = "collected"
    /\ \E order \in IterationOrders(root_candidates) :
          LET user_root_nodes == DropSystem(order)
          IN root_nodes' = FilterSeq(user_root_nodes, roData.docs, TRUE)
                           \o FilterSeq(user_root_nodes, roData.docs, FALSE)
    /\ roPc' = "done"
    /\ UNCHANGED <<roData, root_candidates, roInserted>>
    /\ UNCHANGED notRo

\* ---- inputs of identify_root_nodes
RootDoc(id, parentId, docType, name) ==
    [id |-> id, parentId |-> parentId, docType |-> docType, name |-> name]

IdN1 == <<"n", "1">>
IdN2 == <<"n", "2">>
IdN3 == <<"n", "3">>
IdN4 == <<"n", "4">>
IdN5 == <<"n", "5">>
IdSys == SysPrefix \o <<"1">>

RootDocLists ==
    { << RootDoc(IdN2, <<>>, "", <<"x">>),
         RootDoc(IdN5, <<>>, dt, <<"y">>),
         RootDoc(IdN1, <<>>, "", <<"H","o","m","e">>),
         RootDoc(IdSys, <<>>, "", sysname),
         RootDoc(IdN3, IdN1, "", <<"M","y","H","u","b">>),
         RootDoc(IdN4, p4, "", <<"z">>) >> :
        dt \in {"", "search"}, sysname \in {<<"s">>, <<"H","o","m","e">>},
        p4 \in {<<>>, IdN1} }
    \cup { <<>>, << RootDoc(IdSys, <<>>, "home", <<"s">>) >> }

ExpandedChoices ==
    { <<>>,
      << <<"w","+","t","+">> \o IdN3 >>,
      << <<"w","+">> \o IdN4, <<"w","+","t","+">> \o IdN3 >>,
      << IdN3 >>,
      << <<"w","+","z","z">>, <<"w","+">> \o IdSys, <<"w","+">> \o IdN2 >> }

RootsData ==
    {[docs |-> d, workspace |-> w, expanded |-> e] :
        d \in RootDocLists, w \in {"none", "absent", "bad_json", "ok"}, e \in ExpandedChoices}

(***************************************************************************)
(* TanaJSONParser.get_fresh_data: the parse cache                          *)
(***************************************************************************)
\* timedelta.seconds is the seconds field of a timedelta, 0 <= seconds < 3600*24;
\* the whole days are kept in timedelta.days
DaySeconds == 24 * 60 * 60

\* (now - self._cache_timestamp).seconds, for now >= the timestamp
TimedeltaSeconds(elapsed) == elapsed % DaySeconds

\* self._cached_data = None
NoCachedData == [raw_data |-> EmptyData, parsed_at |-> Absent]

\* parse_tana_json(): a dict with at least the keys supertags, nodes and
\* raw_data, also when no file is found or json.load raised
ParsedData(file, now) == [raw_data |-> ParseTanaJson(file), parsed_at |-> now]

\* the cache test of get_fresh_data
CacheIsValid(force_refresh, cache_ttl, now) ==
    /\ ~force_refresh
    /\ cached_data # NoCachedData
    /\ cache_timestamp # Absent
    /\ TimedeltaSeconds(now - cache_timestamp) < cache_ttl

\* time moves at most this often
MaxAdvances == 3

NoCall ==
    [called |-> FALSE, force_refresh |-> FALSE, cache_ttl |-> 0, now |-> 0,
     had_cache |-> FALSE, fetched_at |-> Absent, held |-> NoCachedData,
     reparsed |-> FALSE, returned |-> NoCachedData]

CacheIdle ==
    /\ caNow = 0
    /\ caAdvances = 0
    /\ caFile = NoFile
    /\ cached_data = NoCachedData
    /\ cache_timestamp = Absent
    /\ caLast = NoCall

\* get_fresh_data(force_refresh, cache_ttl)
GetFreshData(force_refresh, cache_ttl) ==
    LET now == caNow
        valid == CacheIsValid(force_refresh, cache_ttl, now)
        fresh == ParsedData(caFile, now)
    IN /\ cached_data' = IF valid THEN cached_data ELSE fresh
       /\ cache_timestamp' = IF valid THEN cache_timestamp ELSE now
       /\ caLast' = [called |-> TRUE, force_refresh |-> force_refresh,
                     cache_ttl |-> cache_ttl, now |-> now,
                     had_cache |-> cached_data # NoCachedData /\ cache_timestamp # Absent,
                     fetched_at |-> cache_timestamp, held |-> cached_data,
                     reparsed |-> ~valid,
                     returned |-> IF valid THEN cached_data ELSE fresh]
       /\ UNCHANGED <<caNow, caAdvances, caFile>>
       /\ UNCHANGED notCa

\* append_to_node after a successful write: the cache is dropped
ClearCache ==
    /\ cached_data # NoCachedData
    /\ cached_data' = NoCachedData
    /\ cache_timestamp' = Absent
    /\ UNCHANGED <<caNow, caAdvances, caFile, caLast>>
    /\ UNCHANGED notCa

\* seconds pass
Advance(seconds) ==
    /\ caAdvances < MaxAdvances
    /\ caAdvances' = caAdvances + 1
    /\ caNow' = caNow + seconds
    /\ UNCHANGED <<caFile, cached_data, cache_timestamp, caLast>>
    /\ UNCHANGED notCa

\* the export file is replaced
FileReplaced(file) ==
    /\ file # caFile
    /\ caFile' = file
    /\ UNCHANGED <<caNow, caAdvances, cached_data, cache_timestamp, caLast>>
    /\ UNCHANGED notCa

\* ---- inputs of the cache
CacheTtls == {1, 60}

ElapsedSteps == {1, 59, DaySeconds}

CacheFiles ==
    { NoFile,
      [shape |-> "nodes", nodes |-> <<NodeB>>],
      [shape |-> "nodes", nodes |-> <<>>] }

(***************************************************************************)
(* TanaOutlineGenerator.print_statistics / _calculate_depth                *)
(***************************************************************************)
\* current_depth > 50
DepthLimit == 50

\* self.root_nodes[:10]
SampleSize == 10

StatDoc(id, parentId) == [id |-> id, parentId |-> parentId]

\* get_children(node_id): the documents whose parentId is node_id, in dict
\* order (no document of the inputs carries a created time)
StatChildren(docs, node_id) ==
    LET IsChild(doc) == doc.parentId = node_id
        kids == SelectSeq(docs, IsChild)
    IN [i \in 1..Len(kids) |-> kids[i].id]

\* self.processed_nodes.add(node_id)
MarkProcessed(processed, node_id) == processed \cup {node_id}

\* _calculate_depth(node_id, current_depth): the depth returned and
\* processed_nodes as the call leaves it
RECURSIVE CalculateDepth(_, _, _, _)
RECURSIVE ChildrenDepth(_, _, _, _, _, _)
CalculateDepth(docs, node_id, current_depth, processed) ==
    IF node_id \in processed \/ current_depth > DepthLimit
    THEN [depth |-> current_depth, processed |-> processed]
    ELSE LET marked == MarkProcessed(processed, node_id)
             children == StatChildren(docs, node_id)
         IN IF children = <<>>
            THEN [depth |-> current_depth, processed |-> marked]
            ELSE ChildrenDepth(docs, children, 1, current_depth, current_depth, marked)

\* for child_id in children: max_child_depth = max(max_child_depth, child_depth)
ChildrenDepth(docs, children, k, current_depth, max_child_depth, processed) ==
    IF k > Len(children)
    THEN [depth |-> max_child_depth, processed |-> processed]
    ELSE LET r == CalculateDepth(docs, children[k], current_depth + 1, processed)
         IN ChildrenDepth(docs, children, k + 1, current_depth,
                          IF r.depth > max_child_depth THEN r.depth ELSE max_child_depth,
                          r.processed)

\* for root_id in self.root_nodes[:10]: max_actual_depth = max(...)
RECURSIVE SampleLoop(_, _, _, _, _)
SampleLoop(docs, roots, k, max_actual_depth, processed) ==
    IF k > Len(roots) \/ k > SampleSize
    THEN [depth |-> max_actual_depth, processed |-> processed]
    ELSE LET r == CalculateDepth(docs, roots[k], 0, processed)
         IN SampleLoop(docs, roots, k + 1,
                       IF r.depth > max_actual_depth THEN r.depth ELSE max_actual_depth,
                       r.processed)

\* print_statistics calls per generator
MaxStatCalls == 2

NotReported == 0 - 1

StatsIdle ==
    /\ stDocs = <<>>
    /\ stRoots = <<>>
    /\ processed_nodes = {}
    /\ stCalls = 0
    /\ stReported = NotReported

\* print_statistics()
PrintStatistics ==
    /\ stCalls < MaxStatCalls
    /\ stCalls' = stCalls + 1
    /\ LET r == SampleLoop(stDocs, stRoots, 1, 0, processed_nodes)
       IN /\ stReported' = r.depth
          /\ processed_nodes' = r.processed
    /\ UNCHANGED <<stDocs, stRoots>>
    /\ UNCHANGED notSt

\* ---- inputs of the statistics: forests over two roots and three more
\* documents, and a forest of eleven roots of which the last has a child
StatForests ==
    { << StatDoc("r1", NoValue), StatDoc("r2", NoValue), StatDoc("x", px),
         StatDoc("y", py), StatDoc("z", pz) >> :
        px \in {"r1", "r2"}, py \in {"r1", "r2", "x"}, pz \in {"r1", "r2", "x", "y"} }

StatRootLists ==
    { <<"r1", "r2">>, <<"r2", "r1">>, <<"r1">>, <<"x", "r1", "r2">>, <<"r1", "x">> }

ManyRootIds == <<"q0", "q1", "q2", "q3", "q4", "q5", "q6", "q7", "q8", "q9", "r2">>

ManyRootsForest ==
    [i \in 1..Len(ManyRootIds) |-> StatDoc(ManyRootIds[i], NoValue)]
        \o <<StatDoc("x", "r2")>>

(***************************************************************************)
(* KeyTagsManager: add_specific_keytags, add_from_export, remove_keytag    *)
(***************************************************************************)
\* one tag: its name and node id.  A dict keyed by node id is the sequence
\* of its values in insertion order
TagEntry(name, node_id) == [name |-> name, node_id |-> node_id]

\* keytags.json: the user_defined dict, the system dict (has_system is
\* FALSE when the key is absent) and total_supertags
Registry(user_defined, has_system, system, total) ==
    [shape |-> "registry", user_defined |-> user_defined,
     has_system |-> has_system, system |-> system, total_supertags |-> total]

NoRegistryFile == [shape |-> "missing", user_defined |-> <<>>,
                   has_system |-> FALSE, system |-> <<>>, total_supertags |-> 0]
InvalidRegistryFile == [NoRegistryFile EXCEPT !.shape = "invalid"]

\* the empty dict load_keytags returns for a missing or unreadable file
EmptyKeytags == [NoRegistryFile EXCEPT !.shape = "empty"]

\* load_keytags
LoadKeytags(file) == IF file.shape = "registry" THEN file ELSE EmptyKeytags

\* tag_id in d
HasKey(d, tag_id) == \E i \in 1..Len(d) : d[i].node_id = tag_id

\* d[entry.node_id] = entry: an existing key keeps its place
DictPut(d, entry) ==
    IF HasKey(d, entry.node_id)
    THEN [i \in 1..Len(d) |-> IF d[i].node_id = entry.node_id THEN entry ELSE d[i]]
    ELSE Append(d, entry)

\* d.update(other)
RECURSIVE DictUpdate(_, _)
DictUpdate(d, other) ==
    IF other = <<>> THEN d ELSE DictUpdate(DictPut(d, Head(other)), Tail(other))

\* del d[tag_id]
DictDel(d, tag_id) == SelectSeq(d, LAMBDA e : e.node_id # tag_id)

\* a plausible slip: leaving the system tags out of the count
CountTotalUserOnly(user_defined, system) == Len(user_defined)

\* len(supertags['user_defined']) + len(system)
CountTotal(user_defined, system) == Len(user_defined) + Len(system)

\* what an operation does before it saves: an outcome that ends it, or
\* "save" with the data to write
Ended(outcome) == [outcome |-> outcome, data |-> EmptyKeytags]
ToSave(data) == [outcome |-> "save", data |-> data]

\* the first available tag whose name matches tag_name without regard to
\* case; 0 when none does
MatchingTag(available_tags, tag_name) ==
    LET hits == {i \in 1..Len(available_tags) :
                    Lower(available_tags[i].name) = Lower(tag_name)}
    IN IF hits = {} THEN 0 ELSE CHOOSE i \in hits : \A j \in hits : i <= j

\* the loop of add_specific_keytags over tag_names: [raised, tags_to_add];
\* current_keytags['supertags'] raises KeyError on the empty dict
RECURSIVE SpecificTagsToAdd(_, _, _, _)
SpecificTagsToAdd(current_keytags, available_tags, tag_names, tags_to_add) ==
    IF tag_names = <<>> THEN [raised |-> FALSE, tags_to_add |-> tags_to_add]
    ELSE LET m == MatchingTag(available_tags, Head(tag_names))
         IN IF m = 0
            THEN SpecificTagsToAdd(current_keytags, available_tags,
                                   Tail(tag_names), tags_to_add)
            ELSE IF current_keytags.shape # "registry"
            THEN [raised |-> TRUE, tags_to_add |-> tags_to_add]
            ELSE SpecificTagsToAdd(
                     current_keytags, available_tags, Tail(tag_names),
                     IF HasKey(current_keytags.user_defined, available_tags[m].node_id)
                     THEN tags_to_add
                     ELSE DictPut(tags_to_add, available_tags[m]))

\* update of user_defined and of total_supertags, shared by the two adds
WithAdded(current_keytags, tags_to_add) ==
    LET user_defined == DictUpdate(current_keytags.user_defined, tags_to_add)
    IN [current_keytags EXCEPT
           !.user_defined = user_defined,
           !.total_supertags = CountTotal(user_defined, current_keytags.system)]

\* add_specific_keytags up to its save
AddSpecificPlan(file, available_tags, tag_names) ==
    LET current_keytags == LoadKeytags(file)
        loop == SpecificTagsToAdd(current_keytags, available_tags, tag_names, <<>>)
    IN IF available_tags = <<>> THEN Ended("no_export")
       ELSE IF loop.raised THEN Ended("raised")
       ELSE IF loop.tags_to_add = <<>> THEN Ended("nothing_new")
       ELSE ToSave(WithAdded(current_keytags, loop.tags_to_add))

\* the tags of the export whose name no user-defined tag has, keyed by id
RECURSIVE ExportTagsToAdd(_, _, _)
ExportTagsToAdd(current_user_tags, available_tags, tags_to_add) ==
    IF available_tags = <<>> THEN tags_to_add
    ELSE LET tag_data == Head(available_tags)
             already_exists == \E i \in 1..Len(current_user_tags) :
                                  current_user_tags[i].name = tag_data.name
         IN ExportTagsToAdd(current_user_tags, Tail(available_tags),
                            IF already_exists THEN tags_to_add
                            ELSE DictPut(tags_to_add, tag_data))

\* add_from_export up to its save
AddFromExportPlan(file, available_tags) ==
    LET current_keytags == LoadKeytags(file)
        tags_to_add == ExportTagsToAdd(current_keytags.user_defined, available_tags, <<>>)
    IN IF available_tags = <<>> THEN Ended("no_export")
       ELSE IF tags_to_add = <<>> THEN Ended("nothing_new")
       ELSE IF current_keytags.shape # "registry" THEN Ended("raised")
       ELSE ToSave(WithAdded(current_keytags, tags_to_add))

\* remove_keytag up to its save: the first user-defined tag with that name
\* is deleted; keytags_data['supertags']['system'] raises KeyError when the
\* key is absent
RemovePlan(file, tag_name) ==
    LET keytags_data == LoadKeytags(file)
        user_defined == keytags_data.user_defined
        hits == {i \in 1..Len(user_defined) : user_defined[i].name = tag_name}
        first == CHOOSE i \in hits : \A j \in hits : i <= j
        remaining == DictDel(user_defined, user_defined[first].node_id)
    IN IF user_defined = <<>> THEN Ended("no_user_defined")
       ELSE IF hits = {} THEN Ended("not_found")
       ELSE IF ~keytags_data.has_system THEN Ended("raised")
       ELSE ToSave([keytags_data EXCEPT
                       !.user_defined = remaining,
                       !.total_supertags = CountTotal(remaining, keytags_data.system)])

\* operations per run
MaxKeytagCalls == 3

NoOperation == [op |-> "none", outcome |-> "none", ok |-> FALSE, before |-> NoRegistryFile]

KeytagsIdle ==
    /\ ktFile = NoRegistryFile
    /\ ktExport = <<>>
    /\ ktCalls = 0
    /\ ktLast = NoOperation

\* load_keytags reports a missing or unreadable file, and
\* load_supertags_from_export a missing SuperTags.md, through Colors.error
MissingRegistry == ktFile.shape # "registry"
MissingExport == ktExport = <<>>

\* the end of an operation.  save_keytags opens the file for writing and
\* dumps the data: open may fail, which leaves the file, and a dump that
\* fails leaves a truncated file; both return False.  Colors.error prints
\* the message and, in the variant that calls sys.exit, ends the process
\* there ("exited"); the other variant goes on with the empty result
Finish(op, plan, reports_error) ==
    /\ ktCalls < MaxKeytagCalls
    /\ ktCalls' = ktCalls + 1
    /\ IF plan.outcome = "save"
       THEN \E outcome \in {"saved", "open_failed", "dump_failed"} :
               /\ ktFile' = CASE outcome = "saved" -> plan.data
                              [] outcome = "open_failed" -> ktFile
                              [] outcome = "dump_failed" -> InvalidRegistryFile
               /\ ktLast' = [op |-> op, outcome |-> outcome,
                             ok |-> (outcome = "saved"), before |-> ktFile]
       ELSE /\ ktFile' = ktFile
            /\ \E outcome \in {plan.outcome} \cup
                               (IF reports_error THEN {"exited"} ELSE {}) :
                  ktLast' = [op |-> op, outcome |-> outcome,
                             ok |-> (outcome = "nothing_new"), before |-> ktFile]
    /\ UNCHANGED ktExport
    /\ UNCHANGED notKt

AddSpecificKeytags(tag_names) ==
    Finish("add_specific_keytags", AddSpecificPlan(ktFile, ktExport, tag_names),
           MissingRegistry \/ MissingExport)

AddFromExport ==
    Finish("add_from_export", AddFromExportPlan(ktFile, ktExport),
           MissingRegistry \/ MissingExport)

RemoveKeytag(tag_name) ==
    Finish("remove_keytag", RemovePlan(ktFile, tag_name), MissingRegistry)

\* ---- inputs of the registry
TagP == TagEntry(<<"P">>, "t1")
TagQ == TagEntry(<<"Q">>, "t2")
TagRenamed == TagEntry(<<"R">>, "t1")       \* the id of P under another name
TagLowerQ == TagEntry(<<"q">>, "t3")

RegistryFiles ==
    { Registry(u, TRUE, sy, Len(u) + Len(sy)) :
          u \in {<<>>, <<TagP>>, <<TagP, TagQ>>},
          sy \in {<<>>, <<TagEntry(<<"S">>, "SYS_1")>>} }
    \cup { Registry(<<TagP>>, FALSE, <<>>, 1), NoRegistryFile, InvalidRegistryFile }

ExportTables ==
    { <<>>, <<TagP>>, <<TagP, TagQ>>, <<TagRenamed, TagQ>>, <<TagQ, TagLowerQ>> }

TagNameLists ==
    { <<<<"p">>>>, <<<<"Q">>, <<"q">>>>, <<<<"P">>, <<"Z">>>>, <<<<"Z">>>> }

RemoveNames == { <<"P">>, <<"Q">>, <<"Z">> }

(***************************************************************************)
(* Specifications: one per component, the other components idle            *)
(***************************************************************************)
InitResolver ==
    /\ rsDocs \in ResolverDocs
    /\ rsKeytags \in KeytagChoices
    /\ rsPc = "start"
    /\ meta_node_to_supertag = EmptyDict
    /\ nodes_by_supertag = EmptyDict
    /\ IndexIdle
    /\ WalkerIdle
    /\ EditorIdle
    /\ ImporterIdle
    /\ ValidatorIdle
    /\ RootsIdle
    /\ CacheIdle
    /\ StatsIdle
    /\ KeytagsIdle

NextResolver == BuildMetaMapping \/ TraverseDocs

SpecResolver == InitResolver /\ [][NextResolver]_vars

InitIndex ==
    /\ json_data \in IndexData
    /\ ixClass \in IndexClasses
    /\ ixStatus = "new"
    /\ self_docs = <<>>
    /\ children_cache = EmptyDict
    /\ gcCalls = [x \in QueryIds |-> 0]
    /\ firstReturn = EmptyDict
    /\ lastReturn = EmptyDict
    /\ ResolverIdle
    /\ WalkerIdle
    /\ EditorIdle
    /\ ImporterIdle
    /\ ValidatorIdle
    /\ RootsIdle
    /\ CacheIdle
    /\ StatsIdle
    /\ KeytagsIdle

NextIndex ==
    \/ Construct
    \/ \E node_id \in QueryIds : GetChildren(node_id)

SpecIndex == InitIndex /\ [][NextIndex]_vars

InitWalker ==
    /\ \E ds \in WalkerDocs :
          /\ json_data = [shape |-> "docs", docs |-> ds]
          /\ self_docs = DocsDict(ds, 1, <<>>)
    /\ wkMode \in WalkModes
    /\ ixClass = IF wkMode \in ParserFns THEN "TanaParser" ELSE "TanaOutlineGenerator"
    /\ ixStatus = "ok"
    /\ children_cache = EmptyDict
    /\ gcCalls = [x \in QueryIds |-> 0]
    /\ firstReturn = EmptyDict
    /\ lastReturn = EmptyDict
    /\ wkPc = "ready"
    /\ wkStart \in GraphIds
    /\ wkMaxDepth \in IF wkMode \in ParserFns THEN {0} ELSE 0..MaxDepthArg
    /\ wkStack = <<>>
    /\ wkCalls = 0
    /\ wkPrinted = <<>>
    /\ wkResult = 0
    /\ ResolverIdle
    /\ EditorIdle
    /\ ImporterIdle
    /\ ValidatorIdle
    /\ RootsIdle
    /\ CacheIdle
    /\ StatsIdle
    /\ KeytagsIdle

NextWalker == WalkStart \/ WalkDescend \/ WalkSkip \/ WalkReturn

SpecWalker == InitWalker /\ [][NextWalker]_vars

InitEditor ==
    /\ clock = 0
    /\ fsSource \in SourceFiles
    /\ fsNodeBackups = EmptyDict
    /\ fsFileBackups = EmptyDict
    /\ \E args \in ArgChoices :
          ed = [c \in Callers |->
                   IF c = "c1" THEN [CallerOff(args) EXCEPT !.pc = "idle"]
                   ELSE CallerOff(NoArgs)]
    /\ ResolverIdle
    /\ IndexIdle
    /\ WalkerIdle
    /\ ImporterIdle
    /\ ValidatorIdle
    /\ RootsIdle
    /\ CacheIdle
    /\ StatsIdle
    /\ KeytagsIdle

NextEditor ==
    \/ \E c \in Callers :
          \/ AppendBegin(c)
          \/ AppendNodeBackup(c)
          \/ AppendFileBackup(c)
          \/ AppendWrite(c)
    \/ Tick

SpecEditor == InitEditor /\ [][NextEditor]_vars

InitImporter ==
    /\ imData \in ImporterGraphs
    /\ imKeytags \in ImporterKeytags
    /\ \E old \in OldFileChoices :
          exportDir = [exists |-> TRUE, files |-> [p \in old |-> 0]]
    /\ imRun = 0
    /\ imResult = NoResult
    /\ ResolverIdle
    /\ IndexIdle
    /\ WalkerIdle
    /\ EditorIdle
    /\ ValidatorIdle
    /\ RootsIdle
    /\ CacheIdle
    /\ StatsIdle
    /\ KeytagsIdle

NextImporter == \E clear_export \in BOOLEAN : ImportFile(clear_export)

SpecImporter == InitImporter /\ [][NextImporter]_vars

InitValidator ==
    /\ vdContent \in TifContents
    /\ vdResult = NotValidated
    /\ ResolverIdle
    /\ IndexIdle
    /\ WalkerIdle
    /\ EditorIdle
    /\ ImporterIdle
    /\ RootsIdle
    /\ CacheIdle
    /\ StatsIdle
    /\ KeytagsIdle

NextValidator == Validate

SpecValidator == InitValidator /\ [][NextValidator]_vars

InitRoots ==
    /\ roData \in RootsData
    /\ roPc = "start"
    /\ root_candidates = {}
    /\ roInserted = <<>>
    /\ root_nodes = <<>>
    /\ ResolverIdle
    /\ IndexIdle
    /\ WalkerIdle
    /\ EditorIdle
    /\ ImporterIdle
    /\ ValidatorIdle
    /\ CacheIdle
    /\ StatsIdle
    /\ KeytagsIdle

NextRoots == CollectRootCandidates \/ PrioritizeRoots

SpecRoots == InitRoots /\ [][NextRoots]_vars

InitEditorRace ==
    /\ clock = 0
    /\ fsSource \in RaceSources
    /\ fsNodeBackups = EmptyDict
    /\ fsFileBackups = EmptyDict
    /\ \E n1 \in {"a"}, n2 \in {"a", "b"} :
          ed = [c \in Callers |->
                   [CallerOff(RaceArgs(IF c = "c1" THEN n1 ELSE n2,
                                       IF c = "c1" THEN NewContent ELSE OtherContent))
                       EXCEPT !.pc = "idle", !.runs = MaxRuns - 1]]
    /\ ResolverIdle
    /\ IndexIdle
    /\ WalkerIdle
    /\ ImporterIdle
    /\ ValidatorIdle
    /\ RootsIdle
    /\ CacheIdle
    /\ StatsIdle
    /\ KeytagsIdle

SpecEditorRace == InitEditorRace /\ [][NextEditor]_vars

InitCache ==
    /\ caNow = 0
    /\ caAdvances = 0
    /\ caFile \in CacheFiles
    /\ cached_data = NoCachedData
    /\ cache_timestamp = Absent
    /\ caLast = NoCall
    /\ ResolverIdle
    /\ IndexIdle
    /\ WalkerIdle
    /\ EditorIdle
    /\ ImporterIdle
    /\ ValidatorIdle
    /\ RootsIdle
    /\ StatsIdle
    /\ KeytagsIdle

NextCache ==
    \/ \E force_refresh \in BOOLEAN, cache_ttl \in CacheTtls :
          GetFreshData(force_refresh, cache_ttl)
    \/ ClearCache
    \/ \E seconds \in ElapsedSteps : Advance(seconds)
    \/ \E file \in CacheFiles : FileReplaced(file)

SpecCache == InitCache /\ [][NextCache]_vars

InitStats ==
    /\ \/ stDocs \in StatForests /\ stRoots \in StatRootLists
       \/ stDocs = ManyRootsForest /\ stRoots = ManyRootIds
    /\ processed_nodes = {}
    /\ stCalls = 0
    /\ stReported = NotReported
    /\ ResolverIdle
    /\ IndexIdle
    /\ WalkerIdle
    /\ EditorIdle
    /\ ImporterIdle
    /\ ValidatorIdle
    /\ RootsIdle
    /\ CacheIdle
    /\ KeytagsIdle

NextStats == PrintStatistics

SpecStats == InitStats /\ [][NextStats]_vars

InitQueries ==
    /\ \E ds \in QueryGraphs :
          /\ json_data = [shape |-> "docs", docs |-> ds]
          /\ self_docs = DocsDict(ds, 1, <<>>)
    /\ wkMode \in QueryModes
    /\ ixClass = "TanaParser"
    /\ ixStatus = "ok"
    /\ children_cache = EmptyDict
    /\ gcCalls = [x \in QueryIds |-> 0]
    /\ firstReturn = EmptyDict
    /\ lastReturn = EmptyDict
    /\ wkPc = "ready"
    /\ wkStart \in IF wkMode = "get_path" THEN GraphIds \cup {DanglingId} ELSE {NoValue}
    /\ wkMaxDepth = 0
    /\ wkStack = <<>>
    /\ wkCalls = 0
    /\ wkPrinted = <<>>
    /\ wkResult = 0
    /\ ResolverIdle
    /\ EditorIdle
    /\ ImporterIdle
    /\ ValidatorIdle
    /\ RootsIdle
    /\ CacheIdle
    /\ StatsIdle
    /\ KeytagsIdle

NextQueries == GetStatistics \/ GetPath

SpecQueries == InitQueries /\ [][NextQueries]_vars

InitKeytags ==
    /\ ktFile \in RegistryFiles
    /\ ktExport \in ExportTables
    /\ ktCalls = 0
    /\ ktLast = NoOperation
    /\ ResolverIdle
    /\ IndexIdle
    /\ WalkerIdle
    /\ EditorIdle
    /\ ImporterIdle
    /\ ValidatorIdle
    /\ RootsIdle
    /\ CacheIdle
    /\ StatsIdle

NextKeytags ==
    \/ \E tag_names \in TagNameLists : AddSpecificKeytags(tag_names)
    \/ AddFromExport
    \/ \E tag_name \in RemoveNames : RemoveKeytag(tag_name)

SpecKeytags == InitKeytags /\ [][NextKeytags]_vars

(***************************************************************************)
(* SupertagResolver claims                                                 *)
(***************************************************************************)
\* M has a child whose children include the id (the node -> metanode ->
\* tuple -> supertag-definition hop, read off the input)
ReachesId(docs, M, id) ==
    \E i \in 1..Len(docs) :
        /\ docs[i].id = M
        /\ \E j \in 1..Len(docs[i].children) :
               \E k \in 1..Len(docs) :
                   /\ docs[k].id = docs[i].children[j]
                   /\ \E g \in 1..Len(docs[k].children) : docs[k].children[g] = id

\* x is a content node tagged with target T through the indirect hop
IndirectlyTagged(docs, x, T) ==
    /\ x.docType # "tagDef"
    /\ ~StartsWith(x.name, FieldDefaultsPrefix)
    /\ x.metaNodeId # NoValue
    /\ ReachesId(docs, x.metaNodeId, T.node_id)

\* how often node id appears in tag's result list (0 when the tag has none)
Occurrences(result, tag, id) ==
    IF tag \in DOMAIN result
    THEN Cardinality({i \in 1..Len(result[tag]) : result[tag][i].node_id = id})
    ELSE 0

ResolverTargets == TargetSupertags(rsKeytags)

\* C1: a node tagged with target tag T through the indirect hop appears in
\* T's result list exactly once, also when it matches T through its direct
\* supertags array as well (union of the two strategies, no duplicates).
C1_IndirectExactlyOnce ==
    rsPc = "done" =>
        \A i \in 1..Len(rsDocs) : \A t \in 1..Len(ResolverTargets) :
            IndirectlyTagged(rsDocs, rsDocs[i], ResolverTargets[t]) =>
                Occurrences(nodes_by_supertag, ResolverTargets[t].name, rsDocs[i].id) = 1

\* C2: indirect-strategy completeness: for every target tag T and every
\* document M with a grandchild equal to T's defining id, every non-tagDef
\* node whose _metaNodeId is M is in T's result list, for each such T, also
\* when the same M reaches several target tags.
C2_IndirectComplete ==
    rsPc = "done" =>
        \A i \in 1..Len(rsDocs) : \A t \in 1..Len(ResolverTargets) :
            IndirectlyTagged(rsDocs, rsDocs[i], ResolverTargets[t]) =>
                Occurrences(nodes_by_supertag, ResolverTargets[t].name, rsDocs[i].id) >= 1

\* C3: no result list, for any tag and by either detection strategy, holds
\* a node whose display name begins with "Field defaults for".
C3_NoFieldDefaults ==
    rsPc = "done" =>
        \A tag \in DOMAIN nodes_by_supertag :
            \A i \in 1..Len(nodes_by_supertag[tag]) :
                ~StartsWith(nodes_by_supertag[tag][i].name, FieldDefaultsPrefix)

\* a node named "Field defaults for X" matched by both strategies and was
\* left out, while another node was listed
C3_Witness ==
    /\ rsPc = "done"
    /\ \E i \in 1..Len(rsDocs) :
          /\ rsDocs[i].name = FieldDefaultsPrefix \o <<" ", "X">>
          /\ rsDocs[i].docType # "tagDef"
          /\ rsDocs[i].metaNodeId \in DOMAIN meta_node_to_supertag
          /\ \E s \in 1..Len(rsDocs[i].supertags) :
                 \E t \in 1..Len(ResolverTargets) :
                     DirectMatch(rsDocs[i].supertags[s], ResolverTargets[t])
          /\ \A tag \in DOMAIN nodes_by_supertag :
                 Occurrences(nodes_by_supertag, tag, rsDocs[i].id) = 0
    /\ nodes_by_supertag # EmptyDict

(***************************************************************************)
(* GraphIndex claims                                                       *)
(***************************************************************************)
\* the indexed document of an id
IndexedDoc(id) == self_docs[CHOOSE i \in 1..Len(self_docs) : self_docs[i].id = id]

\* created, with a missing or falsy value read as 0
CreatedOrZero(id) ==
    IF IndexedDoc(id).created = Absent THEN 0 ELSE IndexedDoc(id).created

ExactChildren(list, x) ==
    /\ {list[i] : i \in 1..Len(list)} =
           {self_docs[i].id : i \in {j \in 1..Len(self_docs) : self_docs[j].parentId = x}}
    /\ \A i, j \in 1..Len(list) : i # j => list[i] # list[j]

NonDecreasingByCreated(list) ==
    \A i, j \in 1..Len(list) : i < j => CreatedOrZero(list[i]) <= CreatedOrZero(list[j])

C7_ConstructNeverRaises ==
    /\ ixStatus # "raised"
    /\ (ixStatus = "ok" /\ json_data \in MalformedData) => self_docs = <<>>

(***************************************************************************)
(* TreeWalker claims                                                       *)
(***************************************************************************)
\* the invocations of the recursive function that are active
ActiveCalls == {i \in 1..Len(wkStack) : wkStack[i].fn \in ParserFns \cup PrintFns}

\* C4: count_descendants(x) and get_tree_depth(x) terminate for every start
\* node of every finite graph, also when parentId links form a cycle, and
\* never descend into a node that is already on the current path.
C4_WalkCycleSafe ==
    wkMode \in ParserFns =>
        /\ wkPc # "raised"
        /\ \A i, j \in ActiveCalls : i # j => wkStack[i].node # wkStack[j].node

\* C5: outline rendering terminates on every graph, cyclic or not: along a
\* path _print_children (and _print_children_simple) is invoked at most
\* maxDepth + 1 times, no node is printed by them at a depth greater than
\* maxDepth, and the number of invocations of a run is bounded (by one per
\* document and level).
C5_OutlineDepthBounded ==
    wkMode \in {"_print_children", "print_home_children_list"} =>
        /\ wkPc # "raised"
        /\ Cardinality(ActiveCalls) <= wkMaxDepth + 1
        /\ \A i \in 1..Len(wkPrinted) :
               wkPrinted[i].by \in PrintFns => wkPrinted[i].depth <= wkMaxDepth
        /\ wkCalls <= 1 + Len(self_docs) * wkMaxDepth

\* on a self-parented document the outline reached its deepest invocation,
\* maxDepth + 1 calls of _print_children on d1, having printed d1 at maxDepth
C5_Witness ==
    /\ wkMode = "_print_children"
    /\ wkMaxDepth = MaxDepthArg
    /\ Cardinality(ActiveCalls) = wkMaxDepth + 1
    /\ \A i \in ActiveCalls : wkStack[i].node = "d1"
    /\ \E i \in 1..Len(wkPrinted) :
           wkPrinted[i].id = "d1" /\ wkPrinted[i].depth = wkMaxDepth


(***************************************************************************)
(* NodeEditor claims                                                       *)
(***************************************************************************)

\* the node the run is about, as it stood in the file when the run began
SnapshotNode(c) ==
    FindNodeById(ed[c].args.node_id, ParseTanaJson(ed[c].snap.source))

WriteSteps(c) == {i \in 1..Len(ed[c].ops) : ed[c].ops[i] = "write"}

BackupFailed(c) ==
    \E i \in 1..Len(ed[c].ops) : ed[c].ops[i] \in {"node_backup_failed", "file_backup_failed"}

KnownPositions == {"start", "end", "before_section", "after_section"}

\* C9: modify_node_content on a node with existing content X and new
\* content C yields X, blank line, C for position end and C, blank line, X
\* for position start; an unknown position, or a section position without a
\* section name, behaves as end.  X is the content the node renders to,
\* which for a node without children is its content field.
C9_ModifyNodeContent ==
    \A c \in Callers :
        ed[c].modified_node # NoNode =>
            LET node == ed[c].node_data
                X == ExtractContent(node)
                C == ed[c].args.content
                position == ed[c].args.position
                section == ed[c].args.section
                Y == ed[c].modified_node.content
                AsEnd == X \o <<NL, NL>> \o C
            IN /\ (node.children = <<>> /\ node.hasContent) => X = node.content
               /\ X # <<>> =>
                     /\ ed[c].modified_node.hasContent
                     /\ position = "end" => Y = AsEnd
                     /\ position = "start" => Y = C \o <<NL, NL>> \o X
                     /\ position \notin KnownPositions => Y = AsEnd
                     /\ (position \in {"before_section", "after_section"}
                            /\ section = <<>>) => Y = AsEnd

\* a section position without a section name, on a node that has content
C9_Witness ==
    \E c \in Callers :
        /\ ed[c].modified_node # NoNode
        /\ ed[c].args.position = "before_section"
        /\ ed[c].args.section = <<>>
        /\ ExtractContent(ed[c].node_data) = cX
        /\ ed[c].modified_node.content = <<"x", NL, NL, "c">>

\* some node of the file, at any depth, has this uid
IdPresent(node_id, file) ==
    \E i \in 1..Len(Preorder(file.nodes)) : Preorder(file.nodes)[i].uid = node_id

\* C10: append_to_node with a node id that is not present in the source
\* JSON returns success false with an error, leaves the source file
\* unchanged and creates no backup file.
C10_AbsentNodeFails ==
    \A c \in Callers :
        (ed[c].pc = "done" /\ ~IdPresent(ed[c].args.node_id, ed[c].snap.source)) =>
            /\ ~ed[c].result.success
            /\ ed[c].result.error # ""
            /\ ed[c].ops = <<>>
            /\ fsSource = ed[c].snap.source
            /\ fsNodeBackups = ed[c].snap.nodeBackups
            /\ fsFileBackups = ed[c].snap.fileBackups

\* a run on a file with nodes, none of which has the id asked for
C10_Witness ==
    \E c \in Callers :
        /\ ed[c].pc = "done"
        /\ ed[c].snap.source.shape = "nodes"
        /\ ed[c].snap.source.nodes # <<>>
        /\ ~IdPresent(ed[c].args.node_id, ed[c].snap.source)
        /\ ed[c].result = Failure("not_found")


(***************************************************************************)
(* Importer claims                                                         *)
(***************************************************************************)

\* the graph of the scenario: root, child A tagged Pj (id t1), child B
\* untagged, in the flat and in the nested flavour
ScenarioGraphs ==
    { [format |-> "flat", docs |-> <<StructDoc("root", <<"A", "B">>), NodeA, NodeBPlain>>],
      [format |-> "nested", docs |-> <<StructDoc("root", <<NodeA, NodeBPlain>>)>>] }

\* the files of a directory of the export
FilesIn(dir) == {p \in DOMAIN exportDir.files : p.dir = dir}

\* C11: importing the graph in which exactly one node (A) matches exactly
\* one KeyTags entry (t1 -> Pj) returns nodes_processed = 1 and
\* directories_created = 1, and the tag's directory holds exactly A's node
\* file and the tag's index file.
C11_SingleMatchImport ==
    (imRun > 0 /\ imData \in ScenarioGraphs /\ imKeytags = <<TagPj>>) =>
        /\ imResult.returned
        /\ imResult.nodes_processed = 1
        /\ imResult.directories_created = 1
        /\ FilesIn(DirName(PjName)) =
               {NodeFilePath(PjName, "A"), IndexFilePath(PjName)}

\* every node of the graph, at any level
AllGraphNodes(data) ==
    {data.docs[i] : i \in 1..Len(data.docs)}
    \cup (IF data.format = "nested"
          THEN UNION { {data.docs[i].children[j] : j \in 1..Len(data.docs[i].children)} :
                       i \in 1..Len(data.docs) }
          ELSE {})

\* node x carries the tag, directly or through the metanode hop
NodeMatchesTag(data, x, tag) ==
    /\ x.docType # "tagDef"
    /\ \/ \E s \in 1..Len(x.supertags) :
              \/ x.supertags[s].id = tag.node_id
              \/ Lower(x.supertags[s].name) = Lower(tag.name)
       \/ IndirectlyTagged(data.docs, x, tag)

ZeroMatchingTags ==
    {i \in 1..Len(imKeytags) :
        \A x \in AllGraphNodes(imData) : ~NodeMatchesTag(imData, x, imKeytags[i])}

\* C12: when a KeyTags target tag has zero matching nodes, import_file
\* raises no exception, returns success with no nodes listed for that tag,
\* and the issues list holds exactly one issue, of severity WARNING.
C12_ZeroMatchWarning ==
    (imRun > 0 /\ ZeroMatchingTags # {}) =>
        /\ ~imResult.raised
        /\ imResult.returned
        /\ imResult.success
        /\ \A i \in ZeroMatchingTags :
               imKeytags[i].name \notin DOMAIN imResult.nodes_by_supertag
        /\ Len(imResult.issues) = 1
        /\ imResult.issues[1].severity = "WARNING"

\* C13: after import_file returns, the export directory exists if and only
\* if at least one markdown file was created or at least one supertag was
\* discovered; when neither holds the directory is gone with everything in
\* it, no summary was written and export_dir_exists is False.
C13_ExportDirIffContent ==
    imResult.returned =>
        LET content == \/ imResult.nodes_processed > 0
                       \/ ExtractAllSupertags(imData.docs) # {}
        IN /\ exportDir.exists <=> content
           /\ imResult.export_dir_exists = exportDir.exists
           /\ content =>
                  {SuperTagsMd, HomeMd, ImportSummaryMd} \subseteq DOMAIN exportDir.files
           /\ ~content =>
                  /\ exportDir = NoDir
                  /\ ~imResult.summary_file
                  /\ ~imResult.export_dir_exists

\* an import without content removed a directory that held earlier files
C13_Witness ==
    /\ imResult.returned
    /\ imResult.nodes_processed = 0
    /\ ExtractAllSupertags(imData.docs) = {}
    /\ imResult.before.exists
    /\ imResult.before.files # EmptyDict
    /\ ~imResult.clear_export
    /\ exportDir = NoDir

\* the paths a run wrote
WrittenBy(dir, run) == {p \in DOMAIN dir.files : dir.files[p] = run}

\* C14: with clear_export=True, after import_file returns the export
\* directory holds only files produced by this run, and a second import of
\* the same source and KeyTags ends with the set of file paths the first
\* one produced.
C14_ClearExportReproducible ==
    (imResult.returned /\ imResult.clear_export) =>
        /\ \A p \in DOMAIN exportDir.files : exportDir.files[p] = imRun
        /\ imRun = 2 =>
               DOMAIN exportDir.files = WrittenBy(imResult.before, 1)

\* a second, clearing import after a first one that kept an earlier file
C14_Witness ==
    /\ imRun = 2
    /\ imResult.returned
    /\ imResult.clear_export
    /\ exportDir.exists
    /\ OldTop \in DOMAIN imResult.before.files
    /\ WrittenBy(imResult.before, 1) # {}
    /\ OldTop \notin DOMAIN exportDir.files


(***************************************************************************)
(* Validator claims                                                        *)
(***************************************************************************)

\* two positions of the list hold the same uid
HasDuplicates(uids) ==
    \E i, j \in 1..Len(uids) : i # j /\ uids[i] = uids[j]

\* C15: validate_tana_file returns a structured {valid: false, error}
\* result for every TIF document in which two nodes share the same uid, at
\* any nesting level of the children tree.
C15_DuplicateUidRejected ==
    (vdResult.returned /\ vdContent.json_ok /\ vdContent.shape = "object"
        /\ HasDuplicates(UidsBelow(vdContent.nodes))) =>
            /\ ~vdResult.valid
            /\ vdResult.error # ""


(***************************************************************************)
(* Root detection claims                                                   *)
(***************************************************************************)

\* the text after the last '+' of a path
LastSegment(path) ==
    LET plus == {i \in 1..Len(path) : path[i] = "+"}
    IN IF plus = {} THEN path
       ELSE SubSeq(path, (CHOOSE i \in plus : \A j \in plus : j <= i) + 1, Len(path))

PositionIn(seq, x) == CHOOSE i \in 1..Len(seq) : seq[i] = x

RootTier(id) == IsPrioritized(DocById(roData.docs, id))

\* C16: identify_root_nodes returns only ids that do not start with SYS_,
\* each a parentless document or an existing id named by the last
\* '+'-segment of an expanded path of the supplied workspace; every
\* prioritized candidate precedes every other candidate, and within each
\* tier the candidates keep the order in which they were inserted.
C16_RootNodesOrdered ==
    roPc = "done" =>
        /\ \A i \in 1..Len(root_nodes) :
               /\ ~StartsWith(root_nodes[i], SysPrefix)
               /\ root_nodes[i] \in DocIds(roData.docs)
               /\ \/ DocById(roData.docs, root_nodes[i]).parentId = <<>>
                  \/ /\ roData.workspace = "ok"
                     /\ \E e \in 1..Len(roData.expanded) :
                            LastSegment(roData.expanded[e]) = root_nodes[i]
        /\ \A i, j \in 1..Len(root_nodes) :
               i < j =>
                   /\ ~(~RootTier(root_nodes[i]) /\ RootTier(root_nodes[j]))
                   /\ RootTier(root_nodes[i]) = RootTier(root_nodes[j]) =>
                          PositionIn(roInserted, root_nodes[i])
                              < PositionIn(roInserted, root_nodes[j])


(***************************************************************************)
(* NodeEditor claims: concurrent callers                                   *)
(***************************************************************************)

\* the content field of a node of the source file, <<>> when there is none
StoredContent(node_id) ==
    FindNodeById(node_id, ParseTanaJson(fsSource)).content

\* C17: append_to_node takes no lock: a successful write replaces the file
\* with what the caller read at the start of its run plus its own edit,
\* whatever another caller has written in between, so two concurrent calls
\* can both return success while the file keeps only one of the appends.
C17_WriteIgnoresOtherWriters ==
    [][\A c \in Callers :
          (ed[c].pc = "copied" /\ ed'[c].pc = "done" /\ ed'[c].result.success) =>
              fsSource' = UpdateNodeInJson(ed[c].args.node_id, ed[c].modified_node,
                                           ParseTanaJson(ed[c].snap.source)).data]_vars

\* the lost update: both callers appended to node a, both returned success, and the file holds the second caller's text only
C17_Witness ==
    /\ \A c \in Callers :
          /\ ed[c].pc = "done"
          /\ ed[c].result.success
          /\ ed[c].args.node_id = "a"
    /\ Contains(StoredContent("a"), OtherContent)
    /\ ~Contains(StoredContent("a"), NewContent)


(***************************************************************************)
(* Parse cache claims                                                      *)
(***************************************************************************)

\* what the claim asks of the latest call: it re-parses exactly when asked
\* to, when nothing is cached, or when the cache is cache_ttl seconds old or
\* older
MustReparse ==
    \/ caLast.force_refresh
    \/ ~caLast.had_cache
    \/ caLast.now - caLast.fetched_at >= caLast.cache_ttl

\* C18: get_fresh_data returns the cached data only when it was fetched
\* less than cache_ttl seconds before now; with force_refresh, with nothing
\* cached, or with a cache that is cache_ttl seconds old or older (more than
\* a day included) it re-parses and resets the timestamp.
C18_CacheOnlyWhenFresh ==
    caLast.called =>
        /\ caLast.reparsed <=> MustReparse
        /\ caLast.reparsed => caLast.returned.parsed_at = caLast.now
        /\ ~caLast.reparsed => caLast.returned = caLast.held

\* the same, for a cache less than a day old
C18_WithinADay ==
    (caLast.called /\ caLast.had_cache /\ caLast.now - caLast.fetched_at < DaySeconds)
        => /\ caLast.reparsed <=> MustReparse
           /\ caLast.reparsed => caLast.returned.parsed_at = caLast.now
           /\ ~caLast.reparsed => caLast.returned = caLast.held


(***************************************************************************)
(* NodeEditor claims: what a successful append stores                      *)
(***************************************************************************)

\* the node the run was about, as the source file holds it now
StoredNode(c) == FindNodeById(ed[c].args.node_id, ParseTanaJson(fsSource))

\* a run that has returned success
Succeeded(c) == ed[c].pc = "done" /\ ed[c].result.success

\* C19: a successful end-position append of C to a node whose content field
\* is X leaves the content field X, blank line, C and nothing else, and the
\* children as they were, also when the children carry content; a sequence
\* of such appends therefore accumulates X, C1, ..., Ck.
C19_EndAppendsAccumulate ==
    \A c \in Callers :
        (Succeeded(c) /\ ed[c].args.position = "end"
            /\ SnapshotNode(c).hasContent /\ SnapshotNode(c).content # <<>>) =>
            /\ StoredNode(c).content =
                  SnapshotNode(c).content \o <<NL, NL>> \o ed[c].args.content
            /\ StoredNode(c).children = SnapshotNode(c).children

\* the same, for a node without children
C19_Childless ==
    \A c \in Callers :
        (Succeeded(c) /\ ed[c].args.position = "end"
            /\ SnapshotNode(c).hasContent /\ SnapshotNode(c).content # <<>>
            /\ SnapshotNode(c).children = <<>>) =>
            /\ StoredNode(c).content =
                  SnapshotNode(c).content \o <<NL, NL>> \o ed[c].args.content
            /\ StoredNode(c).children = SnapshotNode(c).children

\* C20: whenever append_to_node returns success the stored content of the
\* node contains the new content, for every position, before_section and
\* after_section with a section name no line matches included.
C20_SuccessStoresContent ==
    \A c \in Callers :
        Succeeded(c) => Contains(StoredNode(c).content, ed[c].args.content)

\* the same, for the positions that do not look for a section
C20_NoSectionSearch ==
    \A c \in Callers :
        (Succeeded(c) /\ ~(ed[c].args.position \in {"before_section", "after_section"}
                              /\ ed[c].args.section # <<>>)) =>
            Contains(StoredNode(c).content, ed[c].args.content)


(***************************************************************************)
(* Importer claims: the missing-tag warning                                *)
(***************************************************************************)

\* C21: the WARNING issue of import_file names exactly the KeyTags target
\* tags that have zero matched nodes (by tag id or by tag name), and there
\* is no WARNING issue when every target tag has a matched node.
C21_WarningNamesMissingTags ==
    imResult.returned =>
        /\ ZeroMatchingTags = {} => imResult.issues = <<>>
        /\ ZeroMatchingTags # {} =>
              /\ Len(imResult.issues) = 1
              /\ \/ imResult.issues[1].details =
                       {IdText(imKeytags[i].node_id) : i \in ZeroMatchingTags}
                 \/ imResult.issues[1].details =
                       {imKeytags[i].name : i \in ZeroMatchingTags}

\* the same, for a registry whose tags all have zero matched nodes
C21_AllTagsMissing ==
    (imResult.returned /\ ZeroMatchingTags = 1..Len(imKeytags)) =>
        /\ ZeroMatchingTags = {} => imResult.issues = <<>>
        /\ ZeroMatchingTags # {} =>
              /\ Len(imResult.issues) = 1
              /\ imResult.issues[1].details =
                    {IdText(imKeytags[i].node_id) : i \in ZeroMatchingTags}


\* the distinct nodes the resolver lists under a tag name
ResolvedNodes(nbs, tag_name) ==
    IF tag_name \in DOMAIN nbs
    THEN {nbs[tag_name][i].node_id : i \in 1..Len(nbs[tag_name])}
    ELSE {}

\* C22: for every KeyTags target tag the usage count extract_all_supertags
\* records equals the number of distinct nodes extract_nodes_by_supertag
\* resolves to the tag, through the supertags array or through the
\* meta-node hop.
C22_UsageCountMatchesResolved ==
    imResult.returned =>
        \A i \in 1..Len(imKeytags) :
            imKeytags[i].node_id \in DOMAIN imResult.supertag_counts =>
                imResult.supertag_counts[imKeytags[i].node_id] =
                    Cardinality(ResolvedNodes(imResult.nodes_by_supertag,
                                              imKeytags[i].name))

\* the same, for graphs whose nodes carry each tag at most once and only in
\* their supertags array
C22_DirectOnly ==
    (imResult.returned /\ imData.docs \in {<<NodeA, NodeA2>>, <<NodeBPlain, TagDefPj>>,
                                           <<NodeBPlain>>, <<>>}) =>
        \A i \in 1..Len(imKeytags) :
            imKeytags[i].node_id \in DOMAIN imResult.supertag_counts =>
                imResult.supertag_counts[imKeytags[i].node_id] =
                    Cardinality(ResolvedNodes(imResult.nodes_by_supertag,
                                              imKeytags[i].name))


(***************************************************************************)
(* Importer claims: the two layouts of a document's fields                 *)
(***************************************************************************)

\* the name of a document, from whichever layout carries it
EitherName(doc) == IF doc.name # <<>> THEN doc.name ELSE doc.top_name

\* the entries the resolver lists for node id, under any tag
EntriesOf(nbs, id) ==
    UNION { {nbs[tag][i] : i \in {j \in 1..Len(nbs[tag]) : nbs[tag][j].node_id = id}} :
            tag \in DOMAIN nbs }

HomeLikeDocs(docs) == {i \in 1..Len(docs) : IsHomeLike(EitherName(docs[i]))}

\* C23: the resolver and the home-node finder read a document's fields from
\* either layout: a tagged node whose name is a top-level field is reported
\* under that name, not Untitled, and a document whose name is under props
\* is recognised by the name patterns of find_home_node.
C23_BothLayoutsRead ==
    imResult.returned =>
        /\ \A i \in 1..Len(imData.docs) :
              EitherName(imData.docs[i]) # <<>> =>
                  \A entry \in EntriesOf(imResult.nodes_by_supertag, imData.docs[i].id) :
                      entry.name = EitherName(imData.docs[i])
        /\ (imResult.summary_file /\ HomeLikeDocs(imData.docs) # {}) =>
              imResult.home_node =
                  imData.docs[CHOOSE i \in HomeLikeDocs(imData.docs) :
                                 \A j \in HomeLikeDocs(imData.docs) : i <= j]

\* the layouts the code does read: names under props for the resolver,
\* top-level names for the home-node finder
C23_OneLayoutEach ==
    imResult.returned =>
        /\ \A i \in 1..Len(imData.docs) :
              imData.docs[i].name # <<>> =>
                  \A entry \in EntriesOf(imResult.nodes_by_supertag, imData.docs[i].id) :
                      entry.name = imData.docs[i].name
        /\ (imResult.summary_file
               /\ \E i \in 1..Len(imData.docs) : IsHomeLike(imData.docs[i].top_name)) =>
              IsHomeLike(imResult.home_node.top_name)


(***************************************************************************)
(* Statistics claims                                                       *)
(***************************************************************************)

\* the height of the tree below a node: 0 for a leaf
RECURSIVE TreeHeight(_, _)
TreeHeight(docs, node_id) ==
    LET children == StatChildren(docs, node_id)
        heights == {TreeHeight(docs, children[i]) : i \in 1..Len(children)}
    IN IF children = <<>> THEN 0
       ELSE 1 + (CHOOSE h \in heights : \A g \in heights : g <= h)

\* the true maximum tree depth over the first SampleSize roots
TrueSampleDepth ==
    LET sampled == {i \in 1..Len(stRoots) : i <= SampleSize}
        heights == {TreeHeight(stDocs, stRoots[i]) : i \in sampled} \cup {0}
    IN CHOOSE h \in heights : \A g \in heights : g <= h

\* C24: on an acyclic graph no deeper than 50 levels print_statistics
\* reports the true maximum tree depth over the first 10 roots on every
\* call, whatever calls came before and whatever the order of the sampled
\* roots, also when one sampled root is a descendant of another.
C24_SampledDepthIsTrueDepth ==
    stCalls > 0 => stReported = TrueSampleDepth

\* the same, for the first call on roots that are all parentless
C24_FirstCallParentlessRoots ==
    (stCalls = 1
        /\ \A i \in 1..Len(stRoots) :
              \A j \in 1..Len(stDocs) :
                  stDocs[j].id = stRoots[i] => stDocs[j].parentId = NoValue)
        => stReported = TrueSampleDepth


(***************************************************************************)
(* TanaParser query claims                                                 *)
(***************************************************************************)

StatisticsCalled == wkMode = "get_statistics" /\ wkPc # "ready"

\* C25: get_statistics terminates (returns its statistics) on every finite
\* graph, graphs with parentId cycles included, and then
\* nodes_with_children + leaf_nodes = total_nodes and
\* system_nodes + user_nodes = total_nodes.
C25_StatisticsTerminate ==
    StatisticsCalled =>
        /\ wkPc = "done"
        /\ ~wkResult.raised
        /\ wkResult.nodes_with_children + wkResult.leaf_nodes = wkResult.total_nodes
        /\ wkResult.system_nodes + wkResult.user_nodes = wkResult.total_nodes

\* the same, for graphs shallower than the interpreter's stack in which
\* every id is a non-empty string
C25_ShallowGraphs ==
    (StatisticsCalled /\ json_data.docs \in SmallGraphs) =>
        /\ wkPc = "done"
        /\ ~wkResult.raised
        /\ wkResult.nodes_with_children + wkResult.leaf_nodes = wkResult.total_nodes
        /\ wkResult.system_nodes + wkResult.user_nodes = wkResult.total_nodes

PathReturned == wkMode = "get_path" /\ wkPc = "done"

\* C29: get_path(n) terminates on every graph, parentId cycles included,
\* and returns a well-formed ancestor chain: no id twice, n last, each
\* element the parentId of the next, every element the id of a document of
\* the index, also when an ancestor has a dangling parentId.
C29_PathWellFormed ==
    PathReturned =>
        LET path == wkResult
        IN /\ \A i, j \in 1..Len(path) : path[i] = path[j] => i = j
           /\ path # <<>> /\ path[Len(path)] = wkStart
           /\ \A i \in 1..(Len(path) - 1) : GetParent(self_docs, path[i + 1]) = path[i]
           /\ \A i \in 1..Len(path) : HasNode(self_docs, path[i])

\* the same, without the requirement that every element is in the index
C29_PathChain ==
    PathReturned =>
        LET path == wkResult
        IN /\ \A i, j \in 1..Len(path) : path[i] = path[j] => i = j
           /\ path # <<>> /\ path[Len(path)] = wkStart
           /\ \A i \in 1..(Len(path) - 1) : GetParent(self_docs, path[i + 1]) = path[i]


(***************************************************************************)
(* NodeEditor claims: backups and the cache across edits                   *)
(***************************************************************************)

\* a step keeps the backup files under these keys as they are
KeepsNodeBackups(keys) ==
    \A k \in keys : k \in DOMAIN fsNodeBackups' /\ fsNodeBackups'[k] = fsNodeBackups[k]

KeepsFileBackups(keys) ==
    \A ts \in keys : ts \in DOMAIN fsFileBackups' /\ fsFileBackups'[ts] = fsFileBackups[ts]

\* C26: the backups taken before each edit all still exist with their
\* pre-edit contents: no later edit overwrites the node backup or the
\* whole-file backup of an earlier edit, also when two edits happen within
\* the same clock second.
C26_BackupsNeverOverwritten ==
    [][/\ KeepsNodeBackups(DOMAIN fsNodeBackups)
       /\ KeepsFileBackups(DOMAIN fsFileBackups)]_vars

\* the same, for the backups taken in an earlier clock second
C26_EarlierSeconds ==
    [][/\ KeepsNodeBackups({k \in DOMAIN fsNodeBackups : k[2] < clock})
       /\ KeepsFileBackups({ts \in DOMAIN fsFileBackups : ts < clock})]_vars


\* a run that has returned failure
Failed(c) == ed[c].pc = "done" /\ ~ed[c].result.success

\* C27: once append_to_node has returned success the cache is empty, so the
\* next read through get_fresh_data re-parses the file even inside the TTL
\* window; when append_to_node fails, the cached data equals what is on
\* disk.
C27_CacheFollowsDisk ==
    \A c \in Callers :
        /\ Succeeded(c) =>
              /\ ed[c].cached_data = EmptyData
              /\ ed[c].cache_timestamp = Absent
        /\ (Failed(c) /\ ed[c].cache_timestamp # Absent) =>
              ed[c].cached_data = ParseTanaJson(fsSource)

\* the same, for the runs that fail before update_node_in_json has changed
\* the parsed data
C27_EarlyFailures ==
    \A c \in Callers :
        /\ Succeeded(c) =>
              /\ ed[c].cached_data = EmptyData
              /\ ed[c].cache_timestamp = Absent
        /\ (Failed(c) /\ ed[c].cache_timestamp # Absent
               /\ ed[c].result.error \in {"no_data", "not_found", "backup_failed",
                                          "update_failed"}) =>
              ed[c].cached_data = ParseTanaJson(fsSource)

(***************************************************************************)
(* update_node_in_json claims                                              *)
(***************************************************************************)
\* a node without its subtree: its own fields and the number of children
OwnFields(node) == [node EXCEPT !.children = <<>>]
Shape(flat) == [i \in 1..Len(flat) |-> Len(flat[i].children)]

\* the parsed data a run started from
DataBefore(c) == ParseTanaJson(ed[c].snap.source)

\* positions, in pre-order, of the nodes with that uid
Matches(node_id, data) ==
    {i \in 1..Len(FlattenNodes(data)) : FlattenNodes(data)[i].uid = node_id}

\* the run has called update_node_in_json
UpdateCalled(c) == ed[c].modified_node # NoNode
UpdateFailed(c) == UpdateCalled(c) /\ Failed(c) /\ ed[c].result.error = "update_failed"
UpdateDone(c) == UpdateCalled(c) /\ ~UpdateFailed(c)

\* the data after the call differs from the data before it in exactly the
\* first node, in pre-order, with the uid, which is now modified_node
ReplacedFirstMatch(c) ==
    LET before == FlattenNodes(DataBefore(c))
        after == FlattenNodes(ed[c].raw_data)
        hits == Matches(ed[c].args.node_id, DataBefore(c))
        first == CHOOSE i \in hits : \A j \in hits : i <= j
    IN /\ hits # {}
       /\ before[first] = ed[c].node_data
       /\ Len(after) = Len(before)
       /\ Shape(after) = Shape(before)
       /\ OwnFields(after[first]) = OwnFields(ed[c].modified_node)
       /\ \A i \in 1..Len(before) :
             i # first => OwnFields(after[i]) = OwnFields(before[i])

\* C28: update_node_in_json replaces exactly one node, the first node in
\* pre-order whose uid is node_id, which is the node find_node_by_id
\* returned for that id, and leaves every other node and the shape of the
\* tree as they were; a call that returns failure leaves the data unchanged.
C28_ReplacesFoundNode ==
    \A c \in Callers :
        UpdateCalled(c) =>
            /\ ~UpdateFailed(c)
            /\ ReplacedFirstMatch(c)

\* the same, without the agreement with find_node_by_id: a call that
\* succeeds replaces the first match only, a call that fails changes nothing
C28_WhenItSucceeds ==
    \A c \in Callers :
        /\ UpdateDone(c) => ReplacedFirstMatch(c)
        /\ UpdateFailed(c) => ed[c].raw_data = DataBefore(c)

\* a run replaced the nested node where a later node has the same uid
C28_DuplicateUid ==
    \E c \in Callers :
        /\ UpdateDone(c)
        /\ Cardinality(Matches(ed[c].args.node_id, DataBefore(c))) = 2

(***************************************************************************)
(* KeyTagsManager claims                                                   *)
(***************************************************************************)
\* the outcomes of an operation that fails or has nothing to do: it ends
\* before save_keytags, or the open for writing fails.  A dump that fails
\* half-way ("dump_failed") is the one failure that is not among them
LeavesFile ==
    {"no_export", "nothing_new", "not_found", "no_user_defined", "raised",
     "exited", "open_failed"}

====
